---- MODULE Spec2Model ----
(***************************************************************************)
(* LocL: key lookup with fallback language, scoped resource trees, token   *)
(* interpolation and pluralization (src/unnamed/part_001, the LocL class). *)
(*                                                                         *)
(* JavaScript strings are sequences of one-character strings, so that      *)
(* split, join, trim, slice and replace are computed character by          *)
(* character.  JavaScript values are records tagged by k: "undef", "str",  *)
(* "num", "obj" (f maps own property names to values) and "throw" (the     *)
(* call raised a TypeError).                                               *)
(***************************************************************************)
EXTENDS Integers, Sequences, FiniteSets, TLC

VARIABLES language, pluralRules, scope, useCache, cache, last,
          config, views, clone, changed

vars == <<language, pluralRules, scope, useCache, cache, last,
          config, views, clone, changed>>

(* ------------------------------------------------------------------ *)
(* JavaScript values                                                   *)
(* ------------------------------------------------------------------ *)

Undef == [k |-> "undef"]

Throw == [k |-> "throw"]

StrV(s) == [k |-> "str", s |-> s]

NumV(n) == [k |-> "num", n |-> n]

ObjV(f) == [k |-> "obj", f |-> f]

EmptyObj == ObjV(<<>>)

\* An ordinary object, which accepts writes: an object literal of the caller, or a
\* container made while an array scope is built. ObjV is an object as the
\* translator hands it out, behind the proxy of makeReadOnly.
PlainObj(f) == [k |-> "obj", f |-> f, plain |-> TRUE]

IsPlain(v) == v.k = "obj" /\ "plain" \in DOMAIN v

\* The object literal of a value: plain objects at every depth.
RECURSIVE Literal(_)
Literal(v) ==
  IF v.k = "obj" THEN PlainObj([name \in DOMAIN v.f |-> Literal(v.f[name])]) ELSE v

\* A variant of makeReadOnly whose get trap hands nested objects out as they are.
makeReadOnlyShallow(obj) == IF obj.k = "obj" THEN ObjV(obj.f) ELSE obj

\* makeReadOnly(obj): the proxy, whose get trap wraps every nested object in turn,
\* so that every object reached through it is behind a proxy.
RECURSIVE makeReadOnly(_)
makeReadOnly(obj) ==
  IF obj.k = "obj" THEN ObjV([name \in DOMAIN obj.f |-> makeReadOnly(obj.f[name])])
  ELSE obj

\* The four traps of the proxy: set, deleteProperty, defineProperty and
\* setPrototypeOf all answer false.
Traps == {"set", "deleteProperty", "defineProperty", "setPrototypeOf"}

Trap(kind) == FALSE

Min(S) == CHOOSE x \in S : \A y \in S : x <= y

(* ------------------------------------------------------------------ *)
(* String primitives                                                   *)
(* ------------------------------------------------------------------ *)

StartsWithAt(s, sub, i) ==
  /\ i >= 1
  /\ i + Len(sub) - 1 <= Len(s)
  /\ SubSeq(s, i, i + Len(sub) - 1) = sub

\* String.prototype.indexOf, 1-based; 0 when sub does not occur.
MinOr0(I) == IF I = {} THEN 0 ELSE Min(I)

IndexOf(s, sub) == MinOr0({i \in 1..(Len(s) - Len(sub) + 1) : StartsWithAt(s, sub, i)})

Includes(s, sub) == IndexOf(s, sub) # 0

EndsWith(s, sub) == StartsWithAt(s, sub, Len(s) - Len(sub) + 1)

\* String.prototype.split with a one-character separator.
RECURSIVE Split(_, _)
SplitAt(s, sep, i) ==
  IF i = 0 THEN <<s>>
  ELSE <<SubSeq(s, 1, i - 1)>> \o Split(SubSeq(s, i + 1, Len(s)), sep)

Split(s, sep) == SplitAt(s, sep, IndexOf(s, <<sep>>))

\* Array.prototype.join.
RECURSIVE Join(_, _)
Join(parts, sep) ==
  IF Len(parts) = 0 THEN <<>>
  ELSE IF Len(parts) = 1 THEN parts[1]
  ELSE parts[1] \o sep \o Join(Tail(parts), sep)

IsSpace(c) == c = " "

\* String.prototype.trim.
RECURSIVE TrimStart(_)
TrimStart(s) ==
  IF Len(s) > 0 /\ IsSpace(s[1]) THEN TrimStart(Tail(s)) ELSE s

RECURSIVE TrimEnd(_)
TrimEnd(s) ==
  IF Len(s) > 0 /\ IsSpace(s[Len(s)]) THEN TrimEnd(SubSeq(s, 1, Len(s) - 1)) ELSE s

Trim(s) == TrimEnd(TrimStart(s))

MapTrim(parts) == [i \in 1..Len(parts) |-> Trim(parts[i])]

LowerChars ==
  <<"a","b","c","d","e","f","g","h","i","j","k","l","m",
    "n","o","p","q","r","s","t","u","v","w","x","y","z">>

UpperChars ==
  <<"A","B","C","D","E","F","G","H","I","J","K","L","M",
    "N","O","P","Q","R","S","T","U","V","W","X","Y","Z">>

DigitChars == <<"0","1","2","3","4","5","6","7","8","9">>

Range(q) == {q[i] : i \in 1..Len(q)}

PosIn(q, c) == CHOOSE i \in 1..Len(q) : q[i] = c

ToUpperChar(c) == IF c \in Range(LowerChars) THEN UpperChars[PosIn(LowerChars, c)] ELSE c

ToLowerChar(c) == IF c \in Range(UpperChars) THEN LowerChars[PosIn(UpperChars, c)] ELSE c

ToUpperCase(s) == [i \in 1..Len(s) |-> ToUpperChar(s[i])]

ToLowerCase(s) == [i \in 1..Len(s) |-> ToLowerChar(s[i])]

\* The regular expression class \w.
IsWord(c) == c \in Range(LowerChars) \cup Range(UpperChars) \cup Range(DigitChars) \cup {"_"}

\* Number to decimal digits (Number.prototype.toString).
RECURSIVE NumToStr(_)
NumToStr(n) ==
  IF n < 10 THEN <<DigitChars[n + 1]>>
  ELSE NumToStr(n \div 10) \o <<DigitChars[(n % 10) + 1]>>

\* String(value).
StringOf(v) ==
  CASE v.k = "str" -> v.s
    [] v.k = "num" -> NumToStr(v.n)
    [] v.k = "undef" -> <<"u","n","d","e","f","i","n","e","d">>
    [] OTHER -> <<"[","o","b","j","e","c","t"," ","O","b","j","e","c","t","]">>

\* parseInt(string): the leading decimal digits after optional blanks, -1 for NaN.
RECURSIVE DigitsValue(_, _)
DigitsValue(s, acc) ==
  IF Len(s) > 0 /\ s[1] \in Range(DigitChars)
  THEN DigitsValue(Tail(s), acc * 10 + (PosIn(DigitChars, s[1]) - 1))
  ELSE acc

LeadingInt(s) ==
  IF Len(s) > 0 /\ s[1] \in Range(DigitChars) THEN DigitsValue(s, 0) ELSE -1

ParseInt(s) == LeadingInt(TrimStart(s))

\* GetSubstitution of String.prototype.replace for a string pattern (no captures):
\* $$ is a dollar and $& the matched text (replacements here hold no other
\* dollar pattern).
RECURSIVE GetSubstitution(_, _)
GetSubstitution(repl, matched) ==
  IF Len(repl) = 0 THEN <<>>
  ELSE IF repl[1] = "$" /\ Len(repl) >= 2 /\ repl[2] \in {"$", "&"}
  THEN (IF repl[2] = "$" THEN <<"$">> ELSE matched)
       \o GetSubstitution(SubSeq(repl, 3, Len(repl)), matched)
  ELSE <<repl[1]>> \o GetSubstitution(Tail(repl), matched)

\* output.replace(pattern, replacement) with a string pattern: the first
\* occurrence only.
ReplaceAt(s, pat, repl, i) ==
  IF i = 0 THEN s
  ELSE SubSeq(s, 1, i - 1) \o GetSubstitution(repl, pat)
       \o SubSeq(s, i + Len(pat), Len(s))

Replace(s, pat, repl) == ReplaceAt(s, pat, repl, IndexOf(s, pat))


(* ------------------------------------------------------------------ *)
(* Configuration: resources, fallback language, formatter registry     *)
(* ------------------------------------------------------------------ *)

\* The arguments of a formatter call: an array of strings.
ArrV(a) == [k |-> "arr", a |-> a]

\* An object literal from a sequence of <<name, value>> pairs.
Props(ps) ==
  ObjV([name \in {ps[i][1] : i \in 1..Len(ps)} |->
          ps[CHOOSE i \in 1..Len(ps) : ps[i][1] = name][2]])

En == <<"e","n">>

De == <<"d","e">>

Fr == <<"f","r">>

\* config.fallbackLanguage
fallbackLanguage == En

ResourcesEn ==
  Props(<<
    <<<<"g","r","e","e","t","i","n","g">>, StrV(<<"H","i"," ","{","n","a","m","e","}","!">>)>>,
    <<<<"s","h","o","u","t">>, StrV(<<"{","n","a","m","e"," ","|"," ","u","p","p","e","r","}">>)>>,
    <<<<"c","u","t">>, StrV(<<"{","n","a","m","e"," ","|"," ","t","r","u","n","c","a","t","e",":","2",",","~","}">>)>>,
    <<<<"o","d","d">>, StrV(<<"{","n","a","m","e"," ","|"," ","n","o","p","e",":","1","}">>)>>,
    <<<<"s","e","l">>, StrV(<<"{","g",","," ","s","e","l","e","c","t",","," ","m"," ","{","H","e","}"," ","f"," ","{","S","h","e","}"," ","o","t","h","e","r"," ","{","T","h","e","y","}","}"," ","o","k">>)>>,
    <<<<"s","e","l","n","o">>, StrV(<<"{","g",","," ","s","e","l","e","c","t",","," ","m"," ","{","H","e","}","}">>)>>,
    <<<<"s","e","l","c">>, StrV(<<"{","g",","," ","s","e","l","e","c","t",","," ","m"," ","{","a",",","b","}"," ","o","t","h","e","r"," ","{","c","}","}">>)>>,
    <<<<"s","e","l","d">>, StrV(<<"{","s","e","l","e","c","t","e","d"," ","|"," ","u","p","p","e","r","}">>)>>,
    <<<<"t","w","o">>, StrV(<<"{","a","}","{","b","}">>)>>,
    <<<<"m","e","s","s","a","g","e","s">>, Props(<< <<<<"o","n","e">>, StrV(<<"o","n","e"," ","m","s","g">>)>>,
                            <<<<"o","t","h","e","r">>, StrV(<<"{","c","o","u","n","t","}"," ","m","s","g","s">>)>> >>)>>,
    <<<<"i","n","b","o","x">>, Props(<< <<<<"o","n","e">>, StrV(<<"1"," ","m","a","i","l">>)>> >>)>>,
    <<<<"p","o","s","t","s">>, Props(<< <<<<"o","t","h","e","r">>, StrV(<<"{","c","o","u","n","t","}"," ","p","o","s","t","s">>)>> >>)>>,
    <<<<"i","t","e","m","_","o","n","e">>, StrV(<<"a","n"," ","i","t","e","m">>)>>,
    <<<<"i","t","e","m","_","o","t","h","e","r">>, StrV(<<"{","c","o","u","n","t","}"," ","i","t","e","m","s">>)>>,
    <<<<"a","p","p","l","e">>, StrV(<<"a","p","p","l","e"," ","{","c","o","u","n","t","}">>)>>,
    <<<<"o","n","l","y">>, StrV(<<"E">>)>>,
    <<<<"n","e","s","t","e","d">>, Props(<<
        <<<<"a">>, Props(<< <<<<"b">>, StrV(<<"N","e","s","t","e","d"," ","v","a","l","u","e">>)>> >>)>>,
        <<<<"x",".","y">>, StrV(<<"l","i","t">>)>> >>)>>
  >>)

ResourcesDe ==
  Props(<<
    <<<<"g","r","e","e","t","i","n","g">>, StrV(<<"H","a","l","l","o"," ","{","n","a","m","e","}","!">>)>>,
    <<<<"i","t","e","m","_","o","t","h","e","r">>, StrV(<<"d","e"," ","i","t","e","m","s">>)>>,
    <<<<"n","e","s","t","e","d">>, Props(<<
        <<<<"a">>, Props(<< <<<<"c">>, StrV(<<"d","e"," ","c">>)>> >>)>> >>)>>
  >>)

ResourcesFr ==
  Props(<<
    <<<<"g","r","e","e","t","i","n","g">>, StrV(<<"S","a","l","u","t"," ","{","n","a","m","e","}">>)>>,
    <<<<"m","e","s","s","a","g","e","s">>, Props(<< <<<<"o","n","e">>, StrV(<<"u","n"," ","m","s","g">>)>>,
                            <<<<"o","t","h","e","r">>, StrV(<<"{","c","o","u","n","t","}"," ","m","s","g","s"," ","f","r">>)>> >>)>>,
    <<<<"a","p","p","l","e","_","o","n","e">>, StrV(<<"u","n","e"," ","p","o","m","m","e">>)>>
  >>)

\* config.resources
\* The resources object given to the constructor.
TestResources == Props(<< <<En, ResourcesEn>>, <<De, ResourcesDe>>, <<Fr, ResourcesFr>> >>)

\* this.config.resources
resources == config.resources

\* Property read obj[name] (undefined when absent or when obj is no object).
Prop(obj, name) ==
  IF obj.k = "obj" /\ name \in DOMAIN obj.f THEN obj.f[name] ELSE Undef

(* ------------------------------------------------------------------ *)
(* defaultFormatters (the string formatters)                           *)
(* ------------------------------------------------------------------ *)

\* Truthiness of a value.
Truthy(v) ==
  CASE v.k = "undef" -> FALSE
    [] v.k = "str" -> Len(v.s) > 0
    [] v.k = "num" -> v.n # 0
    [] OTHER -> TRUE

\* args[i] of a formatter call: the empty string stands for undefined, which
\* every formatter reads through || or parseInt.
Arg(args, i) == IF i <= Len(args.a) THEN args.a[i] ELSE <<>>

upper(val, args) == StrV(ToUpperCase(StringOf(val)))

lower(val, args) == StrV(ToLowerCase(StringOf(val)))

CapitalizeStr(s) == IF Len(s) = 0 THEN s ELSE <<ToUpperChar(s[1])>> \o Tail(s)

capitalize(val, args) == StrV(CapitalizeStr(StringOf(val)))

trim(val, args) == StrV(Trim(StringOf(val)))

\* a || b for strings
OrStr(a, b) == IF a = <<>> THEN b ELSE a

\* parseInt(a) || d
IntOr(p, d) == IF p <= 0 THEN d ELSE p

Truncated(str, length, suffix) ==
  StrV(IF Len(str) > length THEN SubSeq(str, 1, length) \o suffix ELSE str)

\* Reading args[0] of an undefined args raises a TypeError.
truncate(val, args) ==
  IF args.k # "arr" THEN Throw
  ELSE Truncated(StringOf(val), IntOr(ParseInt(Arg(args, 1)), 10), OrStr(Arg(args, 2), <<".",".",".">>))

\* const [yesVal, noVal] = args || []
yesNo(val, args) ==
  IF args.k # "arr"
  THEN StrV(IF Truthy(val) THEN <<"Y","e","s">> ELSE <<"N","o">>)
  ELSE StrV(IF Truthy(val) THEN OrStr(Arg(args, 1), <<"Y","e","s">>) ELSE OrStr(Arg(args, 2), <<"N","o">>))

\* this.formatters: the names of the merged registry.
formatters == {<<"u","p","p","e","r">>, <<"l","o","w","e","r">>, <<"c","a","p","i","t","a","l","i","z","e">>, <<"t","r","i","m">>, <<"t","r","u","n","c","a","t","e">>, <<"y","e","s","N","o">>}

\* this.formatters[name](val, args)
CallFormatter(name, val, args) ==
  CASE name = <<"u","p","p","e","r">> -> upper(val, args)
    [] name = <<"l","o","w","e","r">> -> lower(val, args)
    [] name = <<"c","a","p","i","t","a","l","i","z","e">> -> capitalize(val, args)
    [] name = <<"t","r","i","m">> -> trim(val, args)
    [] name = <<"t","r","u","n","c","a","t","e">> -> truncate(val, args)
    [] OTHER -> yesNo(val, args)

(* ------------------------------------------------------------------ *)
(* Intl                                                                *)
(* ------------------------------------------------------------------ *)

\* new Intl.PluralRules(lang).select(n) for the cardinal rules of en, de
\* (one: n = 1) and fr (one: n = 0 or 1), for counts under a million.
PluralSelect(lang, n) ==
  IF lang = Fr
  THEN (IF n \in {0, 1} THEN <<"o","n","e">> ELSE <<"o","t","h","e","r">>)
  ELSE (IF n = 1 THEN <<"o","n","e">> ELSE <<"o","t","h","e","r">>)

\* new Intl.NumberFormat(lang).format(n) for integers under 1000 (no grouping).
NumberFormat(lang, n) == NumToStr(n)

(* ------------------------------------------------------------------ *)
(* Lookup: findTranslation, buildTranslationObject, lookupWithFallback  *)
(* ------------------------------------------------------------------ *)

\* The scope of a translator: none (undefined), a dotted path string or an array
\* of dotted path strings.
NoScope == [k |-> "none"]

StrScope(s) == [k |-> "str", s |-> s]

ArrScope(a) == [k |-> "arr", a |-> a]

\* A translator as the methods see it through `this`: its language, its scope, the
\* locale of its pluralRules and the useCache option.
Self(lang, scp, plang, uc) ==
  [language |-> lang, scope |-> scp, pluralRules |-> plang, useCache |-> uc]

\* The result of a method together with the cache it leaves behind.
Ret(v, c) == [v |-> v, c |-> c]

\* The loop of findTranslation from the i-th key on; keysCopy is the keys from i.
RECURSIVE FindFrom(_, _, _)
\* A variant of the loop body that descends by the next segment before it tests the
\* remaining path as a literal key.
FindStepSegmentFirst(keys, i, current, keyTest) ==
  IF keys[i] \in DOMAIN current.f THEN FindFrom(keys, i + 1, current.f[keys[i]])
  ELSE IF keyTest \in DOMAIN current.f THEN current.f[keyTest]
  ELSE Undef

FindStep(keys, i, current, keyTest) ==
  IF keyTest \in DOMAIN current.f THEN current.f[keyTest]
  ELSE IF keys[i] \notin DOMAIN current.f THEN Undef
  ELSE FindFrom(keys, i + 1, current.f[keys[i]])

FindFrom(keys, i, current) ==
  IF i > Len(keys) THEN current
  ELSE IF current.k # "obj" THEN Undef
  ELSE FindStep(keys, i, current, Join(SubSeq(keys, i, Len(keys)), <<".">>))

findTranslation(keys, translationObject) ==
  IF translationObject.k # "obj" THEN Undef
  ELSE FindFrom(keys, 1, translationObject)

\* Array.isArray(scope) ? scope.join("|") : scope ?? "*"
ScopeKey(scp) ==
  IF scp.k = "arr" THEN Join(scp.a, <<"|">>)
  ELSE IF scp.k = "str" THEN scp.s
  ELSE <<"*">>

getCacheKey(self, lang) == lang \o <<":",":">> \o ScopeKey(self.scope)

\* scope.split(".").reduce((acc, k) => acc?.[k], langObject)
RECURSIVE ReducePath(_, _, _)
ReducePath(parts, i, acc) ==
  IF i > Len(parts) THEN acc
  ELSE ReducePath(parts, i + 1, Prop(acc, parts[i]))

\* The result of a scope walk, stored under cacheKey when useCache is set.
Cached(self, cacheKey, result, c) ==
  Ret(result, IF self.useCache THEN (cacheKey :> result) @@ c ELSE c)

\* buildTranslationObject returning the whole language object under a scope.
BuildScopedWhole(self, langObject, cacheKey, c) == Ret(langObject, c)

BuildScoped(self, langObject, cacheKey, c) ==
  IF self.useCache /\ cacheKey \in DOMAIN c
  THEN Ret(c[cacheKey], c)
  ELSE Cached(self, cacheKey, ReducePath(Split(self.scope.s, "."), 1, langObject), c)

\* acc[name] = v in strict code: an ordinary object takes the write; a proxy of
\* makeReadOnly answers false from its set trap and a primitive takes no property,
\* which both raise a TypeError.
Assign(acc, name, v) ==
  IF IsPlain(acc) \/ (acc.k = "obj" /\ Trap("set"))
  THEN PlainObj((name :> v) @@ acc.f)
  ELSE Throw

\* A variant of acc[name] ??= {} that assigns a new container every time.
EnsureChildAnew(acc, name) == Assign(acc, name, PlainObj(<<>>))

\* acc[name] ??= {}
EnsureChild(acc, name) ==
  IF Prop(acc, name) # Undef THEN acc ELSE Assign(acc, name, PlainObj(<<>>))

\* acc after the rest of the reduce has worked on acc[name] (sub is what acc[name]
\* has become).
GraftUp(acc, name, sub) ==
  IF sub = Throw THEN Throw
  ELSE IF IsPlain(acc) THEN PlainObj((name :> sub) @@ acc.f)
  ELSE acc

\* The second reduce of the array branch from the i-th segment of the path on:
\* acc[k] = val at the last segment, acc[k] ??= {} before it.
RECURSIVE GraftInto(_, _, _, _)
GraftChild(acc, parts, i, val, ensured) ==
  IF ensured = Throw THEN Throw
  ELSE GraftUp(ensured, parts[i], GraftInto(ensured.f[parts[i]], parts, i + 1, val))

GraftInto(acc, parts, i, val) ==
  IF i = Len(parts) THEN Assign(acc, parts[i], val)
  ELSE GraftChild(acc, parts, i, val, EnsureChild(acc, parts[i]))

\* The for loop over the scope paths from the i-th on; combined is the tree so far.
RECURSIVE GraftAll(_, _, _, _)
GraftNext(mods, i, langObject, grafted) ==
  IF grafted = Throw THEN Throw
  ELSE GraftAll(mods, i + 1, langObject, grafted)

GraftVal(mods, i, langObject, combined, val) ==
  IF Truthy(val)
  THEN GraftNext(mods, i, langObject, GraftInto(combined, Split(mods[i], "."), 1, val))
  ELSE GraftAll(mods, i + 1, langObject, combined)

GraftAll(mods, i, langObject, combined) ==
  IF i > Len(mods) THEN combined
  ELSE GraftVal(mods, i, langObject, combined,
                ReducePath(Split(mods[i], "."), 1, langObject))

\* const roCombined = this.makeReadOnly(combined), stored and returned; a TypeError
\* raised by the loop leaves the method before that.
CachedCombined(self, cacheKey, combined, c) ==
  IF combined = Throw THEN Ret(Throw, c)
  ELSE Cached(self, cacheKey, makeReadOnly(combined), c)

BuildArray(self, langObject, cacheKey, c) ==
  IF self.useCache /\ cacheKey \in DOMAIN c
  THEN Ret(c[cacheKey], c)
  ELSE CachedCombined(self, cacheKey,
                      GraftAll(self.scope.a, 1, langObject, PlainObj(<<>>)), c)

buildTranslationObject(self, lang, c) ==
  IF self.scope.k = "none" \/ (self.scope.k = "str" /\ self.scope.s = <<>>)
  THEN Ret(Prop(resources, lang), c)
  ELSE IF self.scope.k = "str"
  THEN BuildScoped(self, Prop(resources, lang), getCacheKey(self, lang), c)
  ELSE BuildArray(self, Prop(resources, lang), getCacheKey(self, lang), c)

\* findTranslation(keys, b) on a built tree b, the cache carried along; a TypeError
\* raised while b was built goes on to the caller.
FindIn(keys, b) ==
  IF b.v = Throw THEN b ELSE Ret(findTranslation(keys, b.v), b.c)

\* lookupWithFallback without its second walk: the fallback language is never
\* consulted.
OrFallbackCurrentOnly(self, keys, r) == r

\* The second half of lookupWithFallback: the fallback language's tree is built
\* and searched when result is undefined.
OrFallback(self, keys, r) ==
  IF r.v # Undef THEN r
  ELSE FindIn(keys, buildTranslationObject(self, fallbackLanguage, r.c))

LookupKeys(self, keys, base, c) ==
  OrFallback(self, keys,
             FindIn(keys, IF base # Undef THEN Ret(base, c)
                          ELSE buildTranslationObject(self, self.language, c)))

\* lookupWithFallback(key, base); base is Undef when the caller passes none.
lookupWithFallback(self, key, base, c) == LookupKeys(self, Split(key, "."), base, c)

(* ------------------------------------------------------------------ *)
(* interpolate                                                         *)
(* ------------------------------------------------------------------ *)

\* values[name] of a value bag.
BagGet(values, name) == Prop(values, name)

Token(raw) == [raw |-> raw, inner |-> Trim(SubSeq(raw, 2, Len(raw) - 1))]

\* The scan for balanced { ... } blocks: i is the position (1-based), start is 0
\* where the code holds -1.
RECURSIVE ScanTokens(_, _, _, _, _)
ScanTokens(result, i, depth, start, tokens) ==
  IF i > Len(result) THEN tokens
  ELSE IF result[i] = "{"
  THEN ScanTokens(result, i + 1, depth + 1, IF depth = 0 THEN i ELSE start, tokens)
  ELSE IF result[i] = "}"
  THEN IF depth - 1 = 0 /\ start >= 1
       THEN ScanTokens(result, i + 1, depth - 1, 0,
                       Append(tokens, Token(SubSeq(result, start, i))))
       ELSE ScanTokens(result, i + 1, depth - 1, start, tokens)
  ELSE ScanTokens(result, i + 1, depth, start, tokens)

Tokens(result) == ScanTokens(result, 1, 0, 0, <<>>)

\* The last position of the run of \w characters that starts at i (i - 1 when the
\* run is empty), and the same for \s.
RECURSIVE WordRunEnd(_, _)
WordRunEnd(str, i) ==
  IF i <= Len(str) /\ IsWord(str[i]) THEN WordRunEnd(str, i + 1) ELSE i - 1

RECURSIVE SpaceRunEnd(_, _)
SpaceRunEnd(str, i) ==
  IF i <= Len(str) /\ IsSpace(str[i]) THEN SpaceRunEnd(str, i + 1) ELSE i - 1

\* The while loop over caseRegex = /(\w+)\s*\{([^}]*)\}/g: the leftmost match from
\* pos on puts caseMap[key] = text.trim(), and the search goes on after the match.
\* j ends the \w+ run that starts at pos, b is where the { must be and close is the
\* offset from b of the first } after it (0 when there is none).
RECURSIVE CaseMap(_, _, _)
CaseMatch(str, pos, map, j, b, close) ==
  IF j >= pos /\ b <= Len(str) /\ str[b] = "{" /\ close # 0
  THEN CaseMap(str, b + close + 1,
               (SubSeq(str, pos, j) :> Trim(SubSeq(str, b + 1, b + close - 1))) @@ map)
  ELSE CaseMap(str, pos + 1, map)

CaseBrace(str, pos, map, j, b) ==
  CaseMatch(str, pos, map, j, b, IndexOf(SubSeq(str, b + 1, Len(str)), <<"}">>))

CaseMap(str, pos, map) ==
  IF pos > Len(str) THEN map
  ELSE CaseBrace(str, pos, map, WordRunEnd(str, pos),
                 SpaceRunEnd(str, WordRunEnd(str, pos) + 1) + 1)

\* replacement = caseMap[value] ?? caseMap.other ?? ""
SelectCase(caseMap, value) ==
  IF value \in DOMAIN caseMap THEN caseMap[value]
  ELSE IF <<"o","t","h","e","r">> \in DOMAIN caseMap THEN caseMap[<<"o","t","h","e","r">>]
  ELSE <<>>

\* String(v ?? "other")
StringOrOther(v) == IF v = Undef THEN <<"o","t","h","e","r">> ELSE StringOf(v)

\* const [field, type, ...rest] = parts
SelectParts(parts, values) ==
  IF Len(parts) >= 2 /\ parts[2] = <<"s","e","l","e","c","t">>
  THEN SelectCase(CaseMap(Join(SubSeq(parts, 3, Len(parts)), <<" ">>), 1, <<>>),
                  StringOrOther(BagGet(values, parts[1])))
  ELSE <<>>

\* The select branch: the replacement of a token whose inner text includes "select".
SelectReplacement(inner, values) == SelectParts(MapTrim(Split(inner, ",")), values)

\* The formatting branch calling the formatter for defined values only.
PlainValueDefinedOnly(self, token, val, formatterName, args) ==
  IF formatterName # <<>> /\ formatterName \in formatters /\ val # Undef
  THEN CallFormatter(formatterName, val, ArrV(args)).s
  ELSE IF val.k = "num" THEN NumberFormat(self.language, val.n)
  ELSE IF val # Undef THEN StringOf(val)
  ELSE token.raw

\* The last four branches of the interpolation and formatting branch.
PlainValue(self, token, val, formatterName, args) ==
  IF formatterName # <<>> /\ formatterName \in formatters
  THEN CallFormatter(formatterName, val, ArrV(args)).s
  ELSE IF val.k = "num" THEN NumberFormat(self.language, val.n)
  ELSE IF val # Undef THEN StringOf(val)
  ELSE token.raw

\* const args = argsStr ? argsStr.split(",") : []
ArgsOf(argsStr) == IF argsStr # <<>> THEN Split(argsStr, ",") ELSE <<>>

\* const [formatterName, argsStr] = fa
PlainFormat(self, token, val, fa) ==
  PlainValue(self, token, val,
             IF Len(fa) >= 1 THEN fa[1] ELSE <<>>,
             ArgsOf(IF Len(fa) >= 2 THEN fa[2] ELSE <<>>))

\* formatterAndArgs ? formatterAndArgs.split(":") : []
FormatterParts(formatterAndArgs) ==
  IF formatterAndArgs # <<>> THEN Split(formatterAndArgs, ":") ELSE <<>>

\* const [fieldName, formatterAndArgs] = parts
PlainParts(self, token, values, parts) ==
  PlainFormat(self, token, BagGet(values, parts[1]),
              FormatterParts(IF Len(parts) >= 2 THEN parts[2] ELSE <<>>))

\* The interpolation and formatting branch.
PlainReplacement(self, token, values) ==
  PlainParts(self, token, values, MapTrim(Split(token.inner, "|")))

\* The replacement computed for one token (the body of the for loop up to the
\* call of output.replace).
Replacement(self, token, values) ==
  IF Includes(token.inner, <<"s","e","l","e","c","t">>)
  THEN SelectReplacement(token.inner, values)
  ELSE PlainReplacement(self, token, values)

\* The for loop over the tokens: output = output.replace(token.raw, replacement).
RECURSIVE ReplaceTokens(_, _, _, _, _)
ReplaceTokens(self, tokens, i, values, output) ==
  IF i > Len(tokens) THEN output
  ELSE ReplaceTokens(self, tokens, i + 1, values,
                     Replace(output, tokens[i].raw, Replacement(self, tokens[i], values)))

\* interpolate without the "!values" guard: a missing bag is an empty one.
interpolateEmptyBag(self, result, values) ==
  IF result.k # "str" THEN result
  ELSE StrV(ReplaceTokens(self, Tokens(result.s), 1,
                          IF values = Undef THEN EmptyObj ELSE values, result.s))

\* interpolate(result, values); values is Undef when no bag is passed.
interpolate(self, result, values) ==
  IF values = Undef \/ result.k # "str" THEN result
  ELSE StrV(ReplaceTokens(self, Tokens(result.s), 1, values, result.s))

(* ------------------------------------------------------------------ *)
(* The public methods                                                  *)
(* ------------------------------------------------------------------ *)

\* A format option: none, or {formatter, args} with args Undef when omitted.
NoFormat == [k |-> "none"]

Format(name, args) == [k |-> "fmt", formatter |-> name, args |-> args]

applyFormat(value, formatter, args) ==
  IF formatter \notin formatters THEN value
  ELSE CallFormatter(formatter, value, args)

\* format && format.formatter ? applyFormat(...) : interpolated
Formatted(interpolated, format) ==
  IF format.k = "fmt" /\ format.formatter # <<>>
  THEN applyFormat(interpolated, format.formatter, format.args)
  ELSE interpolated

\* key.match(/_(one|few|many|other)$/)
HasPluralSuffix(key) ==
  \/ EndsWith(key, <<"_","o","n","e">>)
  \/ EndsWith(key, <<"_","f","e","w">>)
  \/ EndsWith(key, <<"_","m","a","n","y">>)
  \/ EndsWith(key, <<"_","o","t","h","e","r">>)

\* t without "?? key".
OrKeyUndefined(v, key) == v

\* v ?? key
OrKey(v, key) == IF v = Undef THEN StrV(key) ELSE v

\* this.interpolate(r, values) on a lookup result r, the cache carried along.
InterpolateRet(self, r, values) == Ret(interpolate(self, r.v, values), r.c)

\* this.pluralRules.select(values.count)
Category(self, values) == PluralSelect(self.pluralRules, BagGet(values, <<"c","o","u","n","t">>).n)

checkPlural(self, key, values, c) ==
  IF BagGet(values, <<"c","o","u","n","t">>) # Undef /\ ~HasPluralSuffix(key)
  THEN InterpolateRet(self,
         lookupWithFallback(self, key \o <<"_">> \o Category(self, values), Undef, c),
         values)
  ELSE Ret(Undef, c)

GetFrom(self, key, base) ==
  IF key = <<>> \/ base.v = Throw THEN base
  ELSE lookupWithFallback(self, key, base.v, base.c)

get(self, key, c) == GetFrom(self, key, buildTranslationObject(self, self.language, c))

\* The tail of t and of plural's suffix form: interpolate(result, values) ?? key,
\* then the format option.
Finish(self, key, values, format, result) ==
  IF result.v = Throw THEN result
  ELSE Ret(Formatted(OrKey(interpolate(self, result.v, values), key), format), result.c)

\* t returning whatever checkPlural returned whenever checkPlural took its branch.
AfterCheckPluralShortCircuit(self, key, values, format, pluralCheckResult) ==
  IF BagGet(values, <<"c","o","u","n","t">>) # Undef /\ ~HasPluralSuffix(key) THEN pluralCheckResult
  ELSE Finish(self, key, values, format,
              lookupWithFallback(self, key, Undef, pluralCheckResult.c))

\* t applying the format option to what checkPlural returned.
AfterCheckPluralFormatted(self, key, values, format, pluralCheckResult) ==
  IF pluralCheckResult.v # Undef
  THEN Ret(Formatted(pluralCheckResult.v, format), pluralCheckResult.c)
  ELSE Finish(self, key, values, format,
              lookupWithFallback(self, key, Undef, pluralCheckResult.c))

\* t after checkPlural has returned pluralCheckResult.
AfterCheckPlural(self, key, values, format, pluralCheckResult) ==
  IF pluralCheckResult.v # Undef THEN pluralCheckResult
  ELSE Finish(self, key, values, format,
              lookupWithFallback(self, key, Undef, pluralCheckResult.c))

t(self, key, values, format, c) ==
  IF key = <<>> THEN get(self, <<>>, c)
  ELSE AfterCheckPlural(self, key, values, format, checkPlural(self, key, values, c))

\* The three lookups of the suffix form, each through the whole fallback chain:
\* key_<category> ?? key_other ?? key.
OrBaseKey(self, baseKey, r) ==
  IF r.v # Undef THEN r
  ELSE lookupWithFallback(self, baseKey, Undef, r.c)

OrOtherKey(self, baseKey, r) ==
  IF r.v # Undef THEN r
  ELSE OrBaseKey(self, baseKey,
                 lookupWithFallback(self, baseKey \o <<"_","o","t","h","e","r">>, Undef, r.c))

\* The suffix form with the current language's key_other taken before the fallback
\* language's key_<category>.
SuffixLookupCurrentFirst(self, baseKey, category, c) ==
  IF /\ FindIn(Split(baseKey \o <<"_">> \o category, "."),
               buildTranslationObject(self, self.language, c)).v = Undef
     /\ FindIn(Split(baseKey \o <<"_","o","t","h","e","r">>, "."),
               buildTranslationObject(self, self.language, c)).v # Undef
  THEN FindIn(Split(baseKey \o <<"_","o","t","h","e","r">>, "."),
              buildTranslationObject(self, self.language, c))
  ELSE OrOtherKey(self, baseKey,
                  lookupWithFallback(self, baseKey \o <<"_">> \o category, Undef, c))

SuffixLookup(self, baseKey, category, c) ==
  OrOtherKey(self, baseKey,
             lookupWithFallback(self, baseKey \o <<"_">> \o category, Undef, c))

\* The object form without the branch for the other entry.
ObjectPluralCategoryOnly(self, baseKey, values, category, baseValue) ==
  IF category \in DOMAIN baseValue.f
  THEN OrKey(interpolate(self, baseValue.f[category], values), baseKey)
  ELSE StrV(baseKey)

\* The object form: the category entry, else the other entry, else the bare key.
ObjectPlural(self, baseKey, values, category, baseValue) ==
  IF category \in DOMAIN baseValue.f
  THEN OrKey(interpolate(self, baseValue.f[category], values), baseKey)
  ELSE IF <<"o","t","h","e","r">> \in DOMAIN baseValue.f
  THEN OrKey(interpolate(self, baseValue.f[<<"o","t","h","e","r">>], values), baseKey)
  ELSE StrV(baseKey)

\* plural after the lookup of the base key has returned baseValue.
PluralFrom(self, key, values, format, category, baseValue) ==
  IF baseValue.v = Throw THEN baseValue
  ELSE IF baseValue.v.k = "obj"
  THEN Ret(Formatted(ObjectPlural(self, key, values, category, baseValue.v), format),
           baseValue.c)
  ELSE Finish(self, key, values, format, SuffixLookup(self, key, category, baseValue.c))

plural(self, key, values, format, c) ==
  PluralFrom(self, key, values, format, Category(self, values),
             lookupWithFallback(self, key, Undef, c))

(* ------------------------------------------------------------------ *)
(* Inputs                                                              *)
(* ------------------------------------------------------------------ *)

\* The largest count passed in a value bag.
MaxCount == 2

Bag(ps) == Props(ps)

CountBags == {Bag(<< <<<<"c","o","u","n","t">>, NumV(n)>> >>) : n \in 0..MaxCount}

\* The value bags passed to t; Undef is a call without a bag.
Bags ==
  {Undef, EmptyObj,
   Bag(<< <<<<"n","a","m","e">>, StrV(<<"b","o","b">>)>> >>),
   Bag(<< <<<<"n","a","m","e">>, NumV(7)>> >>),
   Bag(<< <<<<"g">>, StrV(<<"m">>)>> >>),
   Bag(<< <<<<"g">>, StrV(<<"x">>)>> >>),
   Bag(<< <<<<"a">>, StrV(<<"p">>)>>, <<<<"b">>, StrV(<<"q">>)>> >>),
   Bag(<< <<<<"a">>, StrV(<<"{","b","}">>)>>, <<<<"b">>, StrV(<<"X">>)>> >>),
   Bag(<< <<<<"a">>, StrV(<<"$","&">>)>> >>),
   Bag(<< <<<<"s","e","l","e","c","t","e","d">>, StrV(<<"y">>)>> >>)}
  \cup CountBags

\* The keys passed to t, get and plural; the empty key is a call without a key.
Keys ==
  {<<>>, <<"g","r","e","e","t","i","n","g">>, <<"s","h","o","u","t">>, <<"c","u","t">>, <<"o","d","d">>, <<"s","e","l">>, <<"s","e","l","n","o">>, <<"s","e","l","c">>, <<"s","e","l","d">>,
   <<"t","w","o">>, <<"m","e","s","s","a","g","e","s">>, <<"i","n","b","o","x">>, <<"p","o","s","t","s">>, <<"i","t","e","m">>, <<"i","t","e","m","_","o","n","e">>, <<"i","t","e","m","_","o","t","h","e","r">>,
   <<"a","p","p","l","e">>, <<"o","n","l","y">>, <<"g","h","o","s","t">>, <<"n","e","s","t","e","d">>, <<"n","e","s","t","e","d",".","a",".","b">>, <<"n","e","s","t","e","d",".","x",".","y">>,
   <<"a",".","b">>, <<"a",".","c">>, <<"x",".","y">>, <<"b">>, <<"c">>}

Formats == {NoFormat, Format(<<"u","p","p","e","r">>, Undef), Format(<<"n","o","p","e">>, Undef)}

Scopes == {NoScope, StrScope(<<"n","e","s","t","e","d">>), StrScope(<<"n","e","s","t","e","d",".","a">>), StrScope(<<"g","h","o","s","t">>)}

\* config.language as given to the constructor; the empty string is an omitted one.
ConfigLanguages == {<<>>, <<"d","e">>, <<"f","r","-","F","R">>, <<"x","x">>}

\* The arguments of changeLanguage.
ChangeLanguages == {En, De, Fr, <<"x","x">>}

(* ------------------------------------------------------------------ *)
(* The translator                                                      *)
(* ------------------------------------------------------------------ *)

\* isLanguage(value), Undef for null.
IfLanguage(lang) == IF lang \in DOMAIN resources.f THEN StrV(lang) ELSE Undef

\* A variant of isLanguage that tests the whole value, not its first two characters.
isLanguageWhole(value) ==
  IF value = <<>> THEN Undef
  ELSE IfLanguage(value)

isLanguage(value) ==
  IF value = <<>> THEN Undef
  ELSE IfLanguage(SubSeq(value, 1, Min({2, Len(value)})))

\* The language the constructor sets: isLanguage(config.language) ?? fallbackLanguage.
InitialLanguage(cfgLanguage) ==
  IF isLanguage(cfgLanguage) = Undef THEN fallbackLanguage ELSE isLanguage(cfgLanguage).s

\* The grave accent of the two error messages, which no string of this module can
\* hold.
Grave == "GRAVE ACCENT"

ResourcesRequired == <<"[","L","o","c","L","]"," ">> \o <<Grave>> \o <<"r","e","s","o","u","r","c","e","s">> \o <<Grave>> \o <<" ","i","s"," ","r","e","q","u","i","r","e","d">>

FallbackLanguageRequired ==
  <<"[","L","o","c","L","]"," ">> \o <<Grave>> \o <<"f","a","l","l","b","a","c","k","L","a","n","g","u","a","g","e">> \o <<Grave>> \o <<" ","i","s"," ","r","e","q","u","i","r","e","d">>

\* throw new Error(message)
Raised(message) == [k |-> "error", message |-> message]

\* The translators a caller can hold: the constructed one, its clone, and the
\* views that withConfig returns (views[id] holds the overrides of a view).
BaseHandle == [k |-> "locl", id |-> 1]

CloneHandle == [k |-> "locl", id |-> 2]

ViewHandle(id) == [k |-> "view", id |-> id]

\* The configuration object given to the constructor; Undef is a missing member.
Config(res, fb, lang, scp, uc) ==
  [resources |-> res, fallbackLanguage |-> fb, language |-> lang, scope |-> scp,
   useCache |-> uc]

\* A variant of the two checks that looks at fallbackLanguage first.
ConfigErrorFallbackFirst(cfg) ==
  IF ~Truthy(cfg.fallbackLanguage) THEN Raised(FallbackLanguageRequired)
  ELSE IF ~Truthy(cfg.resources) THEN Raised(ResourcesRequired)
  ELSE Undef

\* The two checks that open the constructor: the error it raises, Undef when it
\* goes on.
ConfigError(cfg) ==
  IF ~Truthy(cfg.resources) THEN Raised(ResourcesRequired)
  ELSE IF ~Truthy(cfg.fallbackLanguage) THEN Raised(FallbackLanguageRequired)
  ELSE Undef

Idle == [op |-> "idle"]

Call(op, key, values, format, res) ==
  [op |-> op, key |-> key, values |-> values, format |-> format,
   language |-> language, res |-> res]

\* new LocL(cfg) as a call: what was given and what came out.
NewCall(cfg, lang, res) ==
  [op |-> "new", key |-> <<>>, values |-> Undef, format |-> NoFormat,
   language |-> lang, res |-> res, given |-> cfg]

\* A call made on the translator h; ref is the result the same call has when the
\* scoped trees are built anew instead of taken from the cache.
CallOn(h, op, key, values, format, lang, res, ref) ==
  [op |-> op, key |-> key, values |-> values, format |-> format,
   language |-> lang, res |-> res, on |-> h, ref |-> ref]

This == Self(language, scope, pluralRules, useCache)

NoClone == [k |-> "none"]

NoChange == [k |-> "none"]

\* No view, no clone and no changeLanguage yet.
Alone ==
  /\ views = <<>>
  /\ clone = NoClone
  /\ changed = NoChange

\* The constructor has raised: no field but cache, which its initializer sets, has
\* been assigned.
Unbuilt(cfg) ==
  /\ config = Undef
  /\ language = Undef
  /\ pluralRules = Undef
  /\ scope = NoScope
  /\ useCache = FALSE
  /\ cache = <<>>
  /\ last = NewCall(cfg, Undef, ConfigError(cfg))
  /\ Alone

\* The constructor has run to its end.
Built(cfg) ==
  /\ config = [resources |-> makeReadOnly(cfg.resources)]
  /\ language = InitialLanguage(cfg.language)
  /\ pluralRules = InitialLanguage(cfg.language)
  /\ scope = cfg.scope
  /\ useCache = cfg.useCache
  /\ cache = <<>>
  /\ last = NewCall(cfg, InitialLanguage(cfg.language), BaseHandle)
  /\ Alone

Constructed(cfg) == IF ConfigError(cfg) # Undef THEN Unbuilt(cfg) ELSE Built(cfg)

Init ==
  \E cfgLanguage \in ConfigLanguages, scp \in Scopes, uc \in BOOLEAN :
    Constructed(Config(Literal(TestResources), StrV(fallbackLanguage), cfgLanguage, scp, uc))

ChangeLanguage(lang) ==
  /\ last = Idle
  /\ IF lang \in DOMAIN resources.f
     THEN language' = lang /\ pluralRules' = lang
     ELSE UNCHANGED <<language, pluralRules>>
  /\ UNCHANGED <<scope, useCache, cache, last, config, views, clone, changed>>

T(key, values, format) ==
  /\ last = Idle
  /\ \E r \in {t(This, key, values, format, cache)} :
       /\ last' = Call("t", key, values, format, r.v)
       /\ cache' = r.c
  /\ UNCHANGED <<language, pluralRules, scope, useCache, config, views, clone, changed>>

Get(key) ==
  /\ last = Idle
  /\ \E r \in {get(This, key, cache)} :
       /\ last' = Call("get", key, Undef, NoFormat, r.v)
       /\ cache' = r.c
  /\ UNCHANGED <<language, pluralRules, scope, useCache, config, views, clone, changed>>

Plural(key, values, format) ==
  /\ last = Idle
  /\ \E r \in {plural(This, key, values, format, cache)} :
       /\ last' = Call("plural", key, values, format, r.v)
       /\ cache' = r.c
  /\ UNCHANGED <<language, pluralRules, scope, useCache, config, views, clone, changed>>

\* The caller takes the returned value; the translator is ready for the next call.
\* Nothing follows a constructor that has raised.
Return ==
  /\ last # Idle
  /\ config # Undef
  /\ last' = Idle
  /\ UNCHANGED <<language, pluralRules, scope, useCache, cache, config, views, clone,
                 changed>>

Next ==
  \/ \E lang \in ChangeLanguages : ChangeLanguage(lang)
  \/ \E key \in Keys, values \in Bags, format \in Formats : T(key, values, format)
  \/ \E key \in Keys : Get(key)
  \/ \E key \in Keys \ {<<>>}, values \in CountBags, format \in Formats : Plural(key, values, format)
  \/ Return

Spec == Init /\ [][Next]_vars

(* ------------------------------------------------------------------ *)
(* Construction, array scopes, the other methods, writes by the caller *)
(* ------------------------------------------------------------------ *)

\* The longest array scope is MaxPaths paths long.
MaxPaths == 2

ScopePaths == {<<"n","e","s","t","e","d">>, <<"n","e","s","t","e","d",".","a">>, <<"m","e","s","s","a","g","e","s",".","o","n","e">>, <<"m","e","s","s","a","g","e","s",".","o","t","h","e","r">>, <<"g","h","o","s","t">>}

\* The array scopes: every sequence of up to MaxPaths of the paths.
ArrScopes ==
  {ArrScope(a) : a \in UNION {[1..n -> ScopePaths] : n \in 0..MaxPaths}}

ScopeScopes == {NoScope, StrScope(<<"g","h","o","s","t">>)} \cup ArrScopes

ScopeKeys ==
  {<<>>, <<"g","r","e","e","t","i","n","g">>, <<"n","e","s","t","e","d",".","a",".","b">>, <<"n","e","s","t","e","d",".","x",".","y">>, <<"m","e","s","s","a","g","e","s",".","o","n","e">>, <<"a",".","b">>, <<"g","h","o","s","t">>}

ScopeBags == {Undef, Bag(<< <<<<"c","o","u","n","t">>, NumV(1)>> >>)}

ScopeFormats == {NoFormat, Format(<<"n","o","p","e">>, Undef)}

\* The configurations given to the constructor, with and without the two
\* required members.
ScopeConfigs ==
  {Config(res, fb, lang, scp, uc) :
     res \in {Undef, Literal(TestResources)},
     fb \in {Undef, StrV(fallbackLanguage)},
     lang \in {<<>>, De},
     scp \in ScopeScopes,
     uc \in BOOLEAN}

InitScopes == \E cfg \in ScopeConfigs : Constructed(cfg)

\* tt(key, values, format)
Tt(key, values, format) ==
  /\ last = Idle
  /\ \E r \in {t(This, key, values, format, cache)} :
       /\ last' = Call("tt", key, values, format, r.v)
       /\ cache' = r.c
  /\ UNCHANGED <<language, pluralRules, scope, useCache, config, views, clone, changed>>

\* getObj(key)
GetObj(key) ==
  /\ last = Idle
  /\ \E r \in {get(This, key, cache)} :
       /\ last' = Call("getObj", key, Undef, NoFormat, r.v)
       /\ cache' = r.c
  /\ UNCHANGED <<language, pluralRules, scope, useCache, config, views, clone, changed>>

\* format(value, formatter, args)
FormatValue(value, formatter, args) ==
  /\ last = Idle
  /\ last' = Call("format", <<>>, value, Format(formatter, args),
                  applyFormat(value, formatter, args))
  /\ UNCHANGED <<language, pluralRules, scope, useCache, cache, config, views, clone,
                 changed>>

\* The objects of the resource tree a caller reaches from get(): the path of each
\* below the language object.
ObjectPaths == {<<>>, <<<<"n","e","s","t","e","d">>>>, <<<<"n","e","s","t","e","d">>, <<"a">>>>, <<<<"m","e","s","s","a","g","e","s">>>>}

\* What a write of one of the four kinds makes of an object that takes it.
Written(node, kind, name) ==
  CASE kind = "deleteProperty" ->
         [node EXCEPT !.f = [n \in DOMAIN node.f \ {name} |-> node.f[n]]]
    [] kind = "setPrototypeOf" ->
         [node EXCEPT !.f = (<<"[","[","P","r","o","t","o","t","y","p","e","]","]">> :> EmptyObj) @@ node.f]
    [] OTHER -> [node EXCEPT !.f = (name :> StrV(<<"w","r","i","t","t","e","n">>)) @@ node.f]

\* The tree with the object at path written to.
RECURSIVE WrittenAt(_, _, _, _, _)
WrittenAt(tree, path, i, kind, name) ==
  IF i > Len(path) THEN Written(tree, kind, name)
  ELSE [tree EXCEPT !.f[path[i]] = WrittenAt(tree.f[path[i]], path, i + 1, kind, name)]

\* Whether the object takes a write of the kind: an ordinary object does, a proxy of
\* makeReadOnly answers with its trap.
Takes(node, kind) == IsPlain(node) \/ Trap(kind)

\* The caller tries to write to the object found at path in what get() returns for
\* the language: obj[name] = ..., delete obj[name], Object.defineProperty(obj, name,
\* ...), Object.setPrototypeOf(obj, ...).
Mutate(lang, path, kind, name) ==
  /\ last = Idle
  /\ \E node \in {ReducePath(path, 1, Prop(resources, lang))} :
       /\ node.k = "obj"
       /\ last' = Call("mutate", Join(path, <<".">>), Undef, NoFormat,
                       [k |-> "bool", b |-> Takes(node, kind)])
       /\ IF Takes(node, kind)
          THEN config' = [config EXCEPT !.resources =
                            WrittenAt(resources, <<lang>> \o path, 1, kind, name)]
          ELSE UNCHANGED config
  /\ UNCHANGED <<language, pluralRules, scope, useCache, cache, views, clone, changed>>

\* The caller tries the same writes on the object found at path in the synthetic
\* tree that get() returns under an array scope; a write that is taken lands in the
\* tree the cache holds.
MutateTree(path, kind, name) ==
  /\ last = Idle
  /\ scope.k = "arr"
  /\ \E r \in {get(This, <<>>, cache)} :
       \E node \in {ReducePath(path, 1, r.v)} :
         /\ node.k = "obj"
         /\ last' = Call("mutateTree", Join(path, <<".">>), Undef, NoFormat,
                         [k |-> "bool", b |-> Takes(node, kind)])
         /\ cache' = IF Takes(node, kind) /\ getCacheKey(This, language) \in DOMAIN r.c
                      THEN (getCacheKey(This, language) :>
                              WrittenAt(r.v, path, 1, kind, name)) @@ r.c
                      ELSE r.c
  /\ UNCHANGED <<language, pluralRules, scope, useCache, config, views, clone, changed>>

NextScopes ==
  \/ \E lang \in {De, <<"x","x">>} : ChangeLanguage(lang)
  \/ \E key \in ScopeKeys, values \in ScopeBags, format \in ScopeFormats :
       T(key, values, format)
  \/ \E key \in ScopeKeys, values \in ScopeBags, format \in ScopeFormats :
       Tt(key, values, format)
  \/ \E key \in ScopeKeys : Get(key)
  \/ \E key \in ScopeKeys \ {<<>>} : GetObj(key)
  \/ \E key \in {<<"m","e","s","s","a","g","e","s">>, <<"g","h","o","s","t">>}, values \in CountBags, format \in ScopeFormats :
       Plural(key, values, format)
  \/ \E formatter \in {<<"u","p","p","e","r">>, <<"n","o","p","e">>} :
       FormatValue(StrV(<<"a","b","c">>), formatter, Undef)
  \/ \E lang \in {En, De}, path \in ObjectPaths, kind \in Traps :
       Mutate(lang, path, kind, <<"a">>)
  \/ \E path \in ObjectPaths, kind \in Traps : MutateTree(path, kind, <<"a">>)
  \/ Return

SpecScopes == InitScopes /\ [][NextScopes]_vars

(* ------------------------------------------------------------------ *)
(* Views and clones                                                    *)
(* ------------------------------------------------------------------ *)

\* The most views the caller makes.
MaxViews == 2

\* The argument of withConfig; Undef is an omitted language.
Overrides(lang, scp) == [language |-> lang, scope |-> scp]

\* The object behind a handle: 1 is the constructed translator, which is also the
\* target of every view, 2 is the clone.
Target(h) == IF h.k = "view" THEN 1 ELSE h.id

\* this.language read through h: the get trap of a view answers with its override.
LanguageOf(h) ==
  IF h.k = "view"
  THEN (IF views[h.id].language = Undef THEN language ELSE views[h.id].language.s)
  ELSE IF Target(h) = 1 THEN language ELSE clone.language

\* A variant of the scope trap in which an omitted scope is the scope of the
\* translator the view was made from.
ScopeOfInherited(h) ==
  IF h.k = "view"
  THEN (IF views[h.id].scope = NoScope THEN scope ELSE views[h.id].scope)
  ELSE IF Target(h) = 1 THEN scope ELSE clone.scope

\* this.scope read through h: the get trap of a view answers config.scope.
ScopeOf(h) ==
  IF h.k = "view" THEN views[h.id].scope
  ELSE IF Target(h) = 1 THEN scope ELSE clone.scope

\* this.pluralRules read through h.
RulesOf(h) == IF Target(h) = 1 THEN pluralRules ELSE clone.pluralRules

\* this.cache read through h.
CacheOf(h) == IF Target(h) = 1 THEN cache ELSE clone.cache

SelfOf(h) == Self(LanguageOf(h), ScopeOf(h), RulesOf(h), useCache)

\* The same translator with config.useCache false.
Uncached(h) == Self(LanguageOf(h), ScopeOf(h), RulesOf(h), FALSE)

\* The cache of the object behind h becomes c.
StoreCache(h, c) ==
  IF Target(h) = 1
  THEN cache' = c /\ UNCHANGED clone
  ELSE clone' = [clone EXCEPT !.cache = c] /\ UNCHANGED cache

\* The key withConfig looks its view up with.
ProxyKey(cfg) ==
  <<"p","r","o","x","y",":",":">> \o (IF cfg.language = Undef THEN language ELSE cfg.language.s)
             \o <<":",":">> \o ScopeKey(cfg.scope)

\* withConfig as a call: the overrides given and the view returned.
ViewCall(cfg, res) ==
  [op |-> "withConfig", on |-> BaseHandle, given |-> cfg, res |-> res]

\* withConfig(cfg) on the constructed translator
WithConfig(cfg) ==
  /\ last = Idle
  /\ Len(views) < MaxViews
  /\ IF ProxyKey(cfg) \in DOMAIN cache
     THEN /\ last' = ViewCall(cfg, cache[ProxyKey(cfg)])
          /\ UNCHANGED views
     ELSE /\ last' = ViewCall(cfg, ViewHandle(Len(views) + 1))
          /\ views' = Append(views, cfg)
  /\ UNCHANGED <<language, pluralRules, scope, useCache, cache, config, clone, changed>>

\* this.language read through h just after this.language = lang.
LanguageSet(h, lang) ==
  IF h.k = "view" /\ views[h.id].language # Undef THEN views[h.id].language.s ELSE lang

\* changeLanguage(lang) called through h: the assignments go to the object behind
\* h, and the plural rules are made from this.language as h reads it.
ChangeLanguageOn(h, lang) ==
  /\ last = Idle
  /\ last' = CallOn(h, "changeLanguage", lang, Undef, NoFormat, LanguageOf(h), Undef, Undef)
  /\ IF lang \in DOMAIN resources.f
     THEN /\ changed' = [on |-> h, lang |-> lang]
          /\ IF Target(h) = 1
             THEN /\ language' = lang
                  /\ pluralRules' = LanguageSet(h, lang)
                  /\ UNCHANGED clone
             ELSE /\ clone' = [clone EXCEPT !.language = lang,
                                            !.pluralRules = LanguageSet(h, lang)]
                  /\ UNCHANGED <<language, pluralRules>>
     ELSE UNCHANGED <<language, pluralRules, clone, changed>>
  /\ UNCHANGED <<scope, useCache, cache, config, views>>

\* t(key, values, format) called through h
TOn(h, key, values, format) ==
  /\ last = Idle
  /\ \E r \in {t(SelfOf(h), key, values, format, CacheOf(h))} :
       /\ last' = CallOn(h, "t", key, values, format, LanguageOf(h), r.v,
                         t(Uncached(h), key, values, format, <<>>).v)
       /\ StoreCache(h, r.c)
  /\ UNCHANGED <<language, pluralRules, scope, useCache, config, views, changed>>

\* get(key) called through h
GetOn(h, key) ==
  /\ last = Idle
  /\ \E r \in {get(SelfOf(h), key, CacheOf(h))} :
       /\ last' = CallOn(h, "get", key, Undef, NoFormat, LanguageOf(h), r.v,
                         get(Uncached(h), key, <<>>).v)
       /\ StoreCache(h, r.c)
  /\ UNCHANGED <<language, pluralRules, scope, useCache, config, views, changed>>

\* plural(key, values, format) called through h
PluralOn(h, key, values, format) ==
  /\ last = Idle
  /\ \E r \in {plural(SelfOf(h), key, values, format, CacheOf(h))} :
       /\ last' = CallOn(h, "plural", key, values, format, LanguageOf(h), r.v,
                         plural(Uncached(h), key, values, format, <<>>).v)
       /\ StoreCache(h, r.c)
  /\ UNCHANGED <<language, pluralRules, scope, useCache, config, views, changed>>

\* The overrides the views are made with.
ViewConfigs ==
  {Overrides(lang, scp) :
     lang \in {Undef, StrV(Fr)},
     scp \in {StrScope(<<"n","e","s","t","e","d">>), ArrScope(<<<<"n","e","s","t","e","d">>>>)}}
  \cup {Overrides(StrV(Fr), NoScope)}

\* The translators the caller holds: the constructed one and the views made so far.
ViewHandles == {BaseHandle} \cup {ViewHandle(id) : id \in DOMAIN views}

ViewKeys == {<<"a",".","b">>, <<"a",".","c">>, <<"n","e","s","t","e","d",".","a",".","b">>, <<"m","e","s","s","a","g","e","s">>}

ViewBags == {Undef, Bag(<< <<<<"c","o","u","n","t">>, NumV(0)>> >>)}

InitViews ==
  \E uc \in BOOLEAN :
    Constructed(Config(Literal(TestResources), StrV(fallbackLanguage), <<>>, NoScope, uc))

NextViews ==
  \/ \E cfg \in ViewConfigs : WithConfig(cfg)
  \/ \E h \in ViewHandles, lang \in {De, <<"x","x">>} : ChangeLanguageOn(h, lang)
  \/ \E h \in ViewHandles, key \in ViewKeys, values \in ViewBags :
       TOn(h, key, values, NoFormat)
  \/ \E h \in ViewHandles, key \in ViewKeys : GetOn(h, key)
  \/ \E h \in ViewHandles, values \in CountBags :
       PluralOn(h, <<"m","e","s","s","a","g","e","s">>, values, NoFormat)
  \/ Return

SpecViews == InitViews /\ [][NextViews]_vars

\* A variant of clone that hands the caller the translator it was called on.
ClonedSame(lang, scp) ==
  [ref |-> BaseHandle, language |-> InitialLanguage(lang), pluralRules |-> InitialLanguage(lang),
   scope |-> scp, cache |-> <<>>]

\* The fields of the translator that clone(lang, scp) constructs from
\* {...this.config, language, scope}, and the handle the caller gets for it.
Cloned(lang, scp) ==
  [ref |-> CloneHandle, language |-> InitialLanguage(lang), pluralRules |-> InitialLanguage(lang),
   scope |-> scp, cache |-> <<>>]

\* clone as a call: the arguments given and the translator returned.
CloneCall(lang, scp, res) ==
  [op |-> "clone", on |-> BaseHandle, given |-> Overrides(lang, scp), res |-> res]

\* clone(lang, scp) on the constructed translator; Undef is an omitted language,
\* which defaults to this.language.
Clone(lang, scp) ==
  /\ last = Idle
  /\ \E made \in {Cloned(IF lang = Undef THEN language ELSE lang.s, scp)} :
       /\ clone' = made
       /\ last' = CloneCall(lang, scp, made.ref)
  /\ UNCHANGED <<language, pluralRules, scope, useCache, cache, config, views, changed>>

\* The translators the caller holds: the constructed one and the clone, by the
\* handle clone returned.
CloneHandles == {BaseHandle} \cup (IF clone = NoClone THEN {} ELSE {clone.ref})

CloneScopes == {NoScope, StrScope(<<"n","e","s","t","e","d">>)}

InitClones ==
  \E scp \in CloneScopes, uc \in BOOLEAN :
    Constructed(Config(Literal(TestResources), StrV(fallbackLanguage), <<>>, scp, uc))

NextClones ==
  \/ \E lang \in {Undef, StrV(De)}, scp \in CloneScopes : Clone(lang, scp)
  \/ \E h \in CloneHandles, lang \in {De, Fr, <<"x","x">>} : ChangeLanguageOn(h, lang)
  \/ \E h \in CloneHandles, key \in ViewKeys, values \in ViewBags :
       TOn(h, key, values, NoFormat)
  \/ \E h \in CloneHandles, key \in ViewKeys : GetOn(h, key)
  \/ \E h \in CloneHandles, values \in CountBags :
       PluralOn(h, <<"m","e","s","s","a","g","e","s">>, values, NoFormat)
  \/ Return

SpecClones == InitClones /\ [][NextClones]_vars

\* The translators the caller holds when it makes views and a clone.
DerivedHandles == ViewHandles \cup CloneHandles

\* The overrides and clone arguments given to a scoped translator.
DerivedConfigs ==
  {Overrides(Undef, NoScope), Overrides(StrV(Fr), NoScope),
   Overrides(Undef, StrScope(<<"n","e","s","t","e","d",".","a">>))}

DerivedKeys == {<<"a",".","b">>, <<"b">>}

InitDerived ==
  \E uc \in BOOLEAN :
    Constructed(Config(Literal(TestResources), StrV(fallbackLanguage), <<>>,
                       StrScope(<<"n","e","s","t","e","d">>), uc))

NextDerived ==
  \/ \E cfg \in DerivedConfigs : WithConfig(cfg)
  \/ \E cfg \in DerivedConfigs : Clone(cfg.language, cfg.scope)
  \/ \E h \in DerivedHandles : ChangeLanguageOn(h, De)
  \/ \E h \in DerivedHandles, key \in DerivedKeys : GetOn(h, key)
  \/ Return

SpecDerived == InitDerived /\ [][NextDerived]_vars
(* ------------------------------------------------------------------ *)
(* The private methods and the formatters on their own                 *)
(* ------------------------------------------------------------------ *)

\* The longest template drawn from the brace alphabet.
MaxLen == 4

\* Templates: every string of up to MaxLen characters over an opening brace, a
\* closing brace and a letter, and some longer ones.
BraceTemplates == UNION {[1..n -> {"{", "}", "a"}] : n \in 0..MaxLen}

LongTemplates ==
  {<<"{","a","}","{","a","}">>, <<"{","a","}"," ","{","a","}">>, <<"}"," ","{","a","}">>, <<"{"," ","{","a","}">>, <<"{","s","e","l","e","c","t","e","d","}">>, <<"{","s","e","l","e","c","t","e","d"," ","|"," ","u","p","p","e","r","}">>,
   <<"{","a",","," ","s","e","l","e","c","t","s",","," ","x"," ","{","y","}","}">>, <<"{","a",","," ","s","e","l","e","c","t",","," ","x"," ","{","y","}"," ","o","t","h","e","r"," ","{","z","}","}">>, <<"{","a"," ","|"," ","t","r","u","n","c","a","t","e","}">>}

TextBags ==
  {Bag(<< <<<<"a">>, StrV(<<"X">>)>>, <<<<"s","e","l","e","c","t","e","d">>, StrV(<<"y","e","s">>)>> >>),
   Bag(<< <<<<"a">>, StrV(<<"{","a","}","!">>)>> >>)}

\* interpolate(result, values) on a string
Interpolate(result, values) ==
  /\ last = Idle
  /\ last' = Call("interpolate", result, values, NoFormat,
                  interpolate(This, StrV(result), values))
  /\ UNCHANGED <<language, pluralRules, scope, useCache, cache, config, views, clone,
                 changed>>

\* The trees findTranslation walks: one with a literal dotted key beside the same
\* path in segments, one with the segments only, one with the literal key only, one
\* with a literal key below a segment, and a string.
WalkTrees ==
  {Props(<< <<<<"a",".","b">>, StrV(<<"l","i","t","e","r","a","l">>)>>,
            <<<<"a">>, Props(<< <<<<"b">>, StrV(<<"d","e","e","p">>)>> >>)>> >>),
   Props(<< <<<<"a">>, Props(<< <<<<"b">>, StrV(<<"d","e","e","p">>)>> >>)>> >>),
   Props(<< <<<<"a",".","b">>, StrV(<<"l","i","t","e","r","a","l">>)>> >>),
   Props(<< <<<<"a">>, Props(<< <<<<"b",".","c">>, StrV(<<"b","e","l","o","w">>)>>,
                             <<<<"b">>, Props(<< <<<<"c">>, StrV(<<"d","e","e","p","e","s","t">>)>> >>)>> >>)>> >>),
   Props(<< <<<<"a">>, StrV(<<"l","e","a","f">>)>> >>),
   StrV(<<"t","e","x","t">>)}

WalkKeys == {<<<<"a">>>>, <<<<"a">>, <<"b">>>>, <<<<"a">>, <<"b">>, <<"c">>>>, <<<<"b">>>>, <<<<"b">>, <<"c">>>>}

\* findTranslation(keys, translationObject)
FindTranslation(keys, translationObject) ==
  /\ last = Idle
  /\ last' = Call("findTranslation", Join(keys, <<".">>), translationObject, NoFormat,
                  findTranslation(keys, translationObject))
  /\ UNCHANGED <<language, pluralRules, scope, useCache, cache, config, views, clone,
                 changed>>

TruncateValues == {StrV(<<"a","b","c">>), StrV(<<"a","b","c","d","e","f","g","h","i","j","k","l">>), NumV(12345)}

\* The args of a format call or of a format option; Undef is no args at all.
TruncateArgs ==
  {Undef, ArrV(<<>>), ArrV(<<<<"2">>>>), ArrV(<<<<"2">>, <<"~">>>>), ArrV(<<<<"1","2">>, <<"~">>>>)}

InitText ==
  Constructed(Config(Literal(TestResources), StrV(fallbackLanguage), <<>>, NoScope, TRUE))

NextText ==
  \/ \E result \in BraceTemplates \cup LongTemplates, values \in TextBags :
       Interpolate(result, values)
  \/ \E keys \in WalkKeys, tree \in WalkTrees : FindTranslation(keys, tree)
  \/ \E value \in TruncateValues, args \in TruncateArgs :
       FormatValue(value, <<"t","r","u","n","c","a","t","e">>, args)
  \/ \E args \in TruncateArgs : T(<<"o","n","l","y">>, Undef, Format(<<"t","r","u","n","c","a","t","e">>, args))
  \/ Return

SpecText == InitText /\ [][NextText]_vars

(* ------------------------------------------------------------------ *)
(* What the claims speak of                                            *)
(* ------------------------------------------------------------------ *)

\* The translator that made the last call.
LastSelf == Self(last.language, scope, last.language, useCache)

\* The scoped tree of a language, walked from the resources without the cache.
ScopedTree(lang) ==
  IF scope.k = "none" THEN Prop(resources, lang)
  ELSE ReducePath(Split(scope.s, "."), 1, Prop(resources, lang))

\* The walk of a key in the scoped tree of one language.
Resolve(key, lang) == findTranslation(Split(key, "."), ScopedTree(lang))

\* The fallback chain of a key for the last call: the current language's value,
\* the fallback language's value when that is undefined.
Chain(key) ==
  IF Resolve(key, last.language) # Undef THEN Resolve(key, last.language)
  ELSE Resolve(key, fallbackLanguage)

LastCount == BagGet(last.values, <<"c","o","u","n","t">>)

\* The plural category of the last call's count in the language of the call.
LastCategory == PluralSelect(last.language, LastCount.n)

LastPluralKey == last.key \o <<"_">> \o LastCategory

\* The last call was t with a count and a key without plural suffix.
ImplicitPlural ==
  /\ last.op = "t"
  /\ last.key # <<>>
  /\ LastCount # Undef
  /\ ~HasPluralSuffix(last.key)

\* t was called with a key and takes the normal lookup path without a format.
PlainT ==
  /\ last.op = "t"
  /\ last.key # <<>>
  /\ last.format = NoFormat
  /\ LastCount = Undef

Interpolated(v) == interpolate(LastSelf, v, last.values)

(* ------------------------------------------------------------------ *)
(* C1                                                                  *)
(* ------------------------------------------------------------------ *)

\* C1: a key that is undefined in the current language's scoped tree and defined
\* in the fallback language's scoped tree gets the fallback language's value from
\* get, t (no bag, no format) and plural (the plural object of the fallback
\* language, or its string when no suffixed key resolves); a key defined in the
\* current language's tree gets the current language's value, so the fallback
\* tree is used only when the current walk yields undefined.
C1_FallbackValue ==
  (last.op \in {"get", "t", "plural"} /\ last.key # <<>>) =>
    LET cur == Resolve(last.key, last.language)
        fb == Resolve(last.key, fallbackLanguage)
        used == IF cur # Undef THEN cur ELSE fb
    IN /\ (last.op = "get") => last.res = used
       /\ (last.op = "t" /\ last.values = Undef /\ last.format = NoFormat /\ used # Undef)
            => last.res = used
       /\ (last.op = "plural" /\ last.format = NoFormat /\ used.k = "obj")
            => last.res =
                 (IF LastCategory \in DOMAIN used.f THEN Interpolated(used.f[LastCategory])
                  ELSE IF <<"o","t","h","e","r">> \in DOMAIN used.f THEN Interpolated(used.f[<<"o","t","h","e","r">>])
                  ELSE StrV(last.key))
       /\ (last.op = "plural" /\ last.format = NoFormat /\ used.k = "str"
           /\ Chain(LastPluralKey) = Undef /\ Chain(last.key \o <<"_","o","t","h","e","r">>) = Undef)
            => last.res = Interpolated(used)

\* plural in a language without the key returned the fallback language's plural form.
C1_Witness ==
  /\ last.op = "plural"
  /\ last.language # fallbackLanguage
  /\ Resolve(last.key, last.language) = Undef
  /\ Resolve(last.key, fallbackLanguage).k = "obj"
  /\ LastCategory \in DOMAIN Resolve(last.key, fallbackLanguage).f
  /\ last.res = Interpolated(Resolve(last.key, fallbackLanguage).f[LastCategory])

(* ------------------------------------------------------------------ *)
(* C2                                                                  *)
(* ------------------------------------------------------------------ *)

\* A key that resolves in neither the current nor the fallback scoped tree.
Unresolved(key) ==
  /\ Resolve(key, last.language) = Undef
  /\ Resolve(key, fallbackLanguage) = Undef

\* C2 as stated: for a non-empty key that resolves in neither tree, t without a
\* format returns the key itself, with or without a value bag, and get returns
\* undefined.
C2_Original ==
  (last.op \in {"t", "get"} /\ last.key # <<>> /\ Unresolved(last.key)) =>
    /\ (last.op = "get") => last.res = Undef
    /\ (last.op = "t" /\ last.format = NoFormat) => last.res = StrV(last.key)

\* C2 amended: for a non-empty key that resolves in neither tree, get returns
\* undefined, and t without a format returns the key itself unless the bag holds
\* a count, the key has no plural suffix and key_<category> resolves through the
\* fallback chain, in which case t returns the interpolated key_<category> value.
C2_Amended ==
  (last.op \in {"t", "get"} /\ last.key # <<>> /\ Unresolved(last.key)) =>
    /\ (last.op = "get") => last.res = Undef
    /\ (last.op = "t" /\ last.format = NoFormat) =>
         last.res = (IF ImplicitPlural /\ Chain(LastPluralKey) # Undef
                     THEN Interpolated(Chain(LastPluralKey))
                     ELSE StrV(last.key))

\* t was called with a count for a key that resolves nowhere, and neither does the
\* suffixed key: the key came back.
C2_Witness ==
  /\ ImplicitPlural
  /\ last.format = NoFormat
  /\ Unresolved(last.key)
  /\ Chain(LastPluralKey) = Undef
  /\ last.res = StrV(last.key)

(* ------------------------------------------------------------------ *)
(* C3                                                                  *)
(* ------------------------------------------------------------------ *)

\* C3: t(key) without a value bag (and without a format), for a key whose value in
\* the current language's scoped tree is a string, returns that string exactly,
\* its placeholders untouched.
C3_LiteralWithoutBag ==
  (/\ last.op = "t"
   /\ last.key # <<>>
   /\ last.values = Undef
   /\ last.format = NoFormat
   /\ Resolve(last.key, last.language).k = "str")
    => last.res = Resolve(last.key, last.language)

\* t without a bag returned a stored select template as it is.
C3_Witness ==
  /\ last.op = "t"
  /\ last.values = Undef
  /\ last.format = NoFormat
  /\ last.res.k = "str"
  /\ Includes(last.res.s, <<","," ","s","e","l","e","c","t",",">>)
  /\ last.res = Resolve(last.key, last.language)

(* ------------------------------------------------------------------ *)
(* C4                                                                  *)
(* ------------------------------------------------------------------ *)

\* A plain token {field}: a field name and nothing else between the braces.
IsPlainToken(token) ==
  /\ token.inner # <<>>
  /\ \A i \in 1..Len(token.inner) : IsWord(token.inner[i])
  /\ ~Includes(token.inner, <<"s","e","l","e","c","t">>)

\* What a plain token stands for: the stringified value, its raw text when the
\* field is undefined.
PlainExpected(token, values) ==
  IF BagGet(values, token.inner) # Undef
  THEN StringOf(BagGet(values, token.inner))
  ELSE token.raw

\* The template with each of its tokens, taken left to right from the template
\* itself, replaced at its own position; the text between the tokens is kept.
RECURSIVE Positional(_, _, _, _)
Positional(template, tokens, i, values) ==
  IF i > Len(tokens) THEN template
  ELSE LET p == IndexOf(template, tokens[i].raw)
       IN SubSeq(template, 1, p - 1)
          \o PlainExpected(tokens[i], values)
          \o Positional(SubSeq(template, p + Len(tokens[i].raw), Len(template)),
                        tokens, i + 1, values)

\* C4: t with a value bag on a string template whose tokens are plain tokens returns
\* the template with every token replaced at its own position by the stringified
\* value of its field, or left as its raw text when the field is undefined, the
\* text outside the tokens unchanged, whatever the values contain.
C4_PositionalReplacement ==
  (/\ PlainT
   /\ last.values # Undef
   /\ Chain(last.key).k = "str"
   /\ \A i \in 1..Len(Tokens(Chain(last.key).s)) : IsPlainToken(Tokens(Chain(last.key).s)[i]))
    => last.res = StrV(Positional(Chain(last.key).s, Tokens(Chain(last.key).s), 1, last.values))

(* ------------------------------------------------------------------ *)
(* C5                                                                  *)
(* ------------------------------------------------------------------ *)

\* A token of the form {field | name:arg1,arg2}: one pipe, at most one colon.
IsFormatterToken(token) ==
  /\ Len(Split(token.inner, "|")) = 2
  /\ Len(Split(token.inner, ":")) <= 2

FormatterSpec(token) ==
  Trim(SubSeq(token.inner, IndexOf(token.inner, <<"|">>) + 1, Len(token.inner)))

FormatterField(token) == Trim(SubSeq(token.inner, 1, IndexOf(token.inner, <<"|">>) - 1))

\* What a formatter token stands for: formatter(values[field], [arg1, arg2]) when
\* the registry has the name, the plain token {field} otherwise.
FormatterExpected(token, values) ==
  LET spec == FormatterSpec(token)
      colon == IndexOf(spec, <<":">>)
      name == IF colon = 0 THEN spec ELSE SubSeq(spec, 1, colon - 1)
      args == IF colon = 0 \/ colon = Len(spec) THEN <<>>
              ELSE Split(SubSeq(spec, colon + 1, Len(spec)), ",")
      val == BagGet(values, FormatterField(token))
  IN IF name \in formatters THEN CallFormatter(name, val, ArrV(args)).s
     ELSE IF val # Undef THEN StringOf(val)
     ELSE token.raw

\* The formatter tokens of the last call's template for which cond holds get
\* the replacement the claim states, and a template that is one such token
\* comes back as that replacement.
FormatterTokensAsStated(cond(_)) ==
  (/\ PlainT
   /\ last.values # Undef
   /\ Chain(last.key).k = "str")
    => \A i \in 1..Len(Tokens(Chain(last.key).s)) :
         LET token == Tokens(Chain(last.key).s)[i]
         IN (IsFormatterToken(token) /\ cond(token)) =>
              /\ Replacement(LastSelf, token, last.values) = FormatterExpected(token, last.values)
              /\ (token.raw = Chain(last.key).s
                  /\ ~Includes(FormatterExpected(token, last.values), <<"$">>))
                   => last.res = StrV(FormatterExpected(token, last.values))

AnyToken(token) == TRUE

WithoutSelect(token) == ~Includes(token.inner, <<"s","e","l","e","c","t">>)

SelectCasesText(token) ==
  LET c1 == IndexOf(token.inner, <<",">>)
      tail == SubSeq(token.inner, c1 + 1, Len(token.inner))
      c2 == IndexOf(tail, <<",">>)
  IN SubSeq(tail, c2 + 1, Len(tail))

\* A token {field, select, c1 {t1} c2 {t2} ...}.
IsSelectToken(token) ==
  /\ Len(Split(token.inner, ",")) >= 3
  /\ Trim(Split(token.inner, ",")[2]) = <<"s","e","l","e","c","t">>

\* What a select token stands for: the text of the case named by the field's
\* value ("other" when the bag has no such field), else the text of the other
\* case, else the empty string.
SelectExpected(token, values) ==
  LET cases == CaseMap(SelectCasesText(token), 1, <<>>)
      val == BagGet(values, Trim(Split(token.inner, ",")[1]))
      name == IF val = Undef THEN <<"o","t","h","e","r">> ELSE StringOf(val)
  IN IF name \in DOMAIN cases THEN cases[name]
     ELSE IF <<"o","t","h","e","r">> \in DOMAIN cases THEN cases[<<"o","t","h","e","r">>]
     ELSE <<>>

\* C6: a select token {field, select, c1 {t1} c2 {t2} ...} interpolated with a bag
\* is replaced by the text of the case equal to String(values[field]) ("other"
\* when the field is absent), by the text of the other case when no case matches,
\* and by the empty string when there is no other case either.
C6_SelectCaseText ==
  (/\ PlainT
   /\ last.values # Undef
   /\ Chain(last.key).k = "str")
    => \A i \in 1..Len(Tokens(Chain(last.key).s)) :
         LET token == Tokens(Chain(last.key).s)[i]
         IN IsSelectToken(token) =>
              /\ Replacement(LastSelf, token, last.values) = SelectExpected(token, last.values)
              /\ (token.raw = Chain(last.key).s) => last.res = StrV(SelectExpected(token, last.values))

(* ------------------------------------------------------------------ *)
(* C7                                                                  *)
(* ------------------------------------------------------------------ *)

\* C7: plural(key, values) for a key that resolves through the fallback chain to a
\* plural-form object returns the interpolation of the object's entry for the
\* category of values.count when the object has it, else the interpolation of its
\* other entry when it has one, else the bare key.
C7_ObjectPlural ==
  (/\ last.op = "plural"
   /\ last.format = NoFormat
   /\ Chain(last.key).k = "obj")
    => last.res =
         (IF LastCategory \in DOMAIN Chain(last.key).f
          THEN Interpolated(Chain(last.key).f[LastCategory])
          ELSE IF <<"o","t","h","e","r">> \in DOMAIN Chain(last.key).f
          THEN Interpolated(Chain(last.key).f[<<"o","t","h","e","r">>])
          ELSE StrV(last.key))

\* plural found no entry for the category and returned the other entry.
C7_Witness ==
  /\ last.op = "plural"
  /\ last.format = NoFormat
  /\ Chain(last.key).k = "obj"
  /\ LastCategory \notin DOMAIN Chain(last.key).f
  /\ <<"o","t","h","e","r">> \in DOMAIN Chain(last.key).f
  /\ last.res = Interpolated(Chain(last.key).f[<<"o","t","h","e","r">>])
  /\ last.res # Chain(last.key).f[<<"o","t","h","e","r">>]

(* ------------------------------------------------------------------ *)
(* C8                                                                  *)
(* ------------------------------------------------------------------ *)

\* The first hit of the suffix form: key_<category>, key_other, key, each through
\* the whole fallback chain.
SuffixHit ==
  IF Chain(LastPluralKey) # Undef THEN Chain(LastPluralKey)
  ELSE IF Chain(last.key \o <<"_","o","t","h","e","r">>) # Undef THEN Chain(last.key \o <<"_","o","t","h","e","r">>)
  ELSE Chain(last.key)

\* C8: plural(key, values) for a key that does not resolve to an object returns the
\* interpolation of the first hit in the order key_<category>, key_other, key,
\* each looked up in the current and then the fallback language before the next
\* is tried, and the bare key when none of the three resolves.
C8_SuffixPlural ==
  (/\ last.op = "plural"
   /\ last.key # <<>>
   /\ last.format = NoFormat
   /\ Chain(last.key).k # "obj")
    => last.res = (IF SuffixHit = Undef THEN StrV(last.key) ELSE Interpolated(SuffixHit))

\* The fallback language's key_<category> won over the current language's key_other.
C8_Witness ==
  /\ last.op = "plural"
  /\ last.format = NoFormat
  /\ Chain(last.key).k # "obj"
  /\ last.language # fallbackLanguage
  /\ Resolve(LastPluralKey, last.language) = Undef
  /\ Resolve(last.key \o <<"_","o","t","h","e","r">>, last.language) # Undef
  /\ Resolve(LastPluralKey, fallbackLanguage) # Undef
  /\ last.res = Interpolated(Resolve(LastPluralKey, fallbackLanguage))
  /\ last.res # Interpolated(Resolve(last.key \o <<"_","o","t","h","e","r">>, last.language))

(* ------------------------------------------------------------------ *)
(* C9                                                                  *)
(* ------------------------------------------------------------------ *)

Unscoped(key, lang) == findTranslation(Split(key, "."), Prop(resources, lang))

\* The unscoped value at scope + "." + key through the fallback chain.
UnscopedAtScope(key) ==
  IF Unscoped(scope.s \o <<".">> \o key, last.language) # Undef
  THEN Unscoped(scope.s \o <<".">> \o key, last.language)
  ELSE Unscoped(scope.s \o <<".">> \o key, fallbackLanguage)

\* C10: under a single-path scope, get(k) is the unscoped value at scope + "." + k
\* and t(k) is that value interpolated, so that a key with no value there, though
\* it exists outside the sub-tree, gives undefined from get and the key from t.
C10_ScopeIsolation ==
  (scope.k = "str" /\ last.op \in {"get", "t"} /\ last.key # <<>>) =>
    /\ (last.op = "get") => last.res = UnscopedAtScope(last.key)
    /\ PlainT =>
         last.res = (IF UnscopedAtScope(last.key) = Undef THEN StrV(last.key)
                     ELSE Interpolated(UnscopedAtScope(last.key)))

\* Under a scope, t was asked for a key that exists at the root of the resources
\* and not in the sub-tree, and returned the key.
C10_Witness ==
  /\ scope.k = "str"
  /\ ScopedTree(fallbackLanguage) # Undef
  /\ last.op = "t"
  /\ last.key # <<>>
  /\ Unscoped(last.key, last.language) # Undef
  /\ UnscopedAtScope(last.key) = Undef
  /\ last.res = StrV(last.key)

(* ------------------------------------------------------------------ *)
(* C11                                                                 *)
(* ------------------------------------------------------------------ *)

\* The dotted path p leads to the dotted key or to something above it.
IsPathPrefix(p, key) ==
  /\ Len(Split(p, ".")) <= Len(Split(key, "."))
  /\ SubSeq(Split(key, "."), 1, Len(Split(p, "."))) = Split(p, ".")

\* The key lies under a path of the array scope whose value in lang is truthy.
Listed(key, lang) ==
  \E i \in DOMAIN scope.a :
    /\ Truthy(Unscoped(scope.a[i], lang))
    /\ IsPathPrefix(scope.a[i], key)

\* The key names a container above a path of the array scope.
AboveListed(key) ==
  \E i \in DOMAIN scope.a : IsPathPrefix(key, scope.a[i]) /\ key # scope.a[i]

\* What the tree of an array scope holds at the key for lang: the unscoped value
\* under a listed path, nothing elsewhere.
GraftedValue(key, lang) == IF Listed(key, lang) THEN Unscoped(key, lang) ELSE Undef

\* C11: under an array scope, get(key) for a key that is not a container above a
\* listed path is the unscoped value of the key when the key lies under a listed
\* path whose value in the language is truthy, taken from the current language and
\* then from the fallback language, and undefined when it lies under no such path.
C11_ArrayScopeTree ==
  (/\ config # Undef
   /\ scope.k = "arr"
   /\ last.op \in {"get", "getObj"}
   /\ last.key # <<>>
   /\ ~AboveListed(last.key))
    => last.res = (IF GraftedValue(last.key, last.language) # Undef
                   THEN GraftedValue(last.key, last.language)
                   ELSE GraftedValue(last.key, fallbackLanguage))

(* ------------------------------------------------------------------ *)
(* C12                                                                 *)
(* ------------------------------------------------------------------ *)

\* The synthetic tree of the array scope for lang after its first n paths.
CombinedAfter(lang, n) ==
  GraftAll(SubSeq(scope.a, 1, n), 1, Prop(resources, lang), PlainObj(<<>>))

\* Everything a holds is still in b: a value of a is the same value in b, and a
\* container of a is a container in b that keeps all of it.
RECURSIVE Kept(_, _)
Kept(a, b) ==
  IF a.k = "obj"
  THEN /\ b.k = "obj"
       /\ \A name \in DOMAIN a.f : name \in DOMAIN b.f /\ Kept(a.f[name], b.f[name])
  ELSE a = b

RECURSIVE Content(_)
Content(v) ==
  IF v.k = "obj" THEN ObjV([name \in DOMAIN v.f |-> Content(v.f[name])]) ELSE v

\* C13: after any sequence of calls and of attempted writes (set, delete,
\* defineProperty, setPrototypeOf) to objects reached from the translator at any
\* depth, the resource tree has the content it was constructed with, and every
\* attempted write is refused.
C13_ResourcesReadOnly ==
  (config # Undef) =>
    /\ Content(config.resources) = TestResources
    /\ (last.op \in {"mutate", "mutateTree"}) => last.res = [k |-> "bool", b |-> FALSE]

\* A write to a container of the synthetic tree of an array scope was refused.
C13_TreeWitness ==
  /\ scope.k = "arr"
  /\ last.op = "mutateTree"
  /\ last.key = <<"n","e","s","t","e","d">>
  /\ last.res = [k |-> "bool", b |-> FALSE]

\* A write to an object two levels below the language object was refused.
C13_Witness ==
  /\ config # Undef
  /\ last.op = "mutate"
  /\ last.key = <<"n","e","s","t","e","d",".","a">>
  /\ last.res = [k |-> "bool", b |-> FALSE]
  /\ Content(config.resources) = TestResources

(* ------------------------------------------------------------------ *)
(* C14                                                                 *)
(* ------------------------------------------------------------------ *)

\* C14: every result of t, get and plural, on the translator and on its views, is
\* the result the same call has with useCache false, whatever calls and
\* changeLanguage calls came before and whatever scopes the views have.
C14_CacheTransparent ==
  (last.op \in {"t", "get", "plural"} /\ "ref" \in DOMAIN last) => last.res = last.ref

(* ------------------------------------------------------------------ *)
(* C15                                                                 *)
(* ------------------------------------------------------------------ *)

\* C15: a withConfig call whose overrides are those of a view made before returns
\* that view.
C15_SameView ==
  (last.op = "withConfig") =>
    \A id \in DOMAIN views : (views[id] = last.given) => (last.res = ViewHandle(id))

(* ------------------------------------------------------------------ *)
(* C16                                                                 *)
(* ------------------------------------------------------------------ *)

\* A call has just been made through h.
CalledOn(h) == last = Idle /\ last' # Idle /\ last'.op # "clone" /\ last'.on = h

\* C16: clone returns a translator that is not the one it was called on; a call on
\* the clone, changeLanguage included, leaves the language, the plural rules, the
\* scope and the cache of the original as they were, and a call on the original
\* leaves those of the clone as they were.
C16_CloneIndependent ==
  [][/\ (last = Idle /\ last' # Idle /\ last'.op = "clone") => last'.res # BaseHandle
     /\ (clone # NoClone /\ CalledOn(clone.ref))
          => UNCHANGED <<language, pluralRules, scope, cache>>
     /\ (clone # NoClone /\ CalledOn(BaseHandle)) => UNCHANGED clone]_vars

\* changeLanguage on the clone has given it a language the original does not have,
\* and the clone has filled a cache of its own.
C16_Witness ==
  /\ clone # NoClone
  /\ clone.ref # BaseHandle
  /\ changed # NoChange
  /\ changed.on = clone.ref
  /\ clone.language = changed.lang
  /\ language # clone.language
  /\ clone.cache # <<>>
  /\ clone.cache # cache

(* ------------------------------------------------------------------ *)
(* C17                                                                 *)
(* ------------------------------------------------------------------ *)

\* The translator of the last call had it resolve in lang with the rules of lang.
AsIn(lang) == Self(lang, ScopeOf(last.on), lang, useCache)

\* What the last call returns when it resolves in lang with the rules of lang.
ResultIn(lang) ==
  CASE last.op = "t" -> t(AsIn(lang), last.key, last.values, last.format, CacheOf(last.on)).v
    [] last.op = "get" -> get(AsIn(lang), last.key, CacheOf(last.on)).v
    [] last.op = "plural" ->
         plural(AsIn(lang), last.key, last.values, last.format, CacheOf(last.on)).v

\* C17: after a successful changeLanguage(lang) on a translator, every t, get and
\* plural call on that translator, until the next successful changeLanguage, sees
\* lang as the current language and returns what resolving in lang with the plural
\* rules of lang returns; the fallback language stays the configured one.
C17_LanguageAfterChange ==
  (/\ changed # NoChange
   /\ last.op \in {"t", "get", "plural"}
   /\ last.on = changed.on)
    => /\ last.language = changed.lang
       /\ RulesOf(last.on) = changed.lang
       /\ last.res = ResultIn(changed.lang)

(* ------------------------------------------------------------------ *)
(* C18                                                                 *)
(* ------------------------------------------------------------------ *)

\* The first two characters of a string.
FirstTwo(s) == SubSeq(s, 1, IF Len(s) < 2 THEN Len(s) ELSE 2)

\* C18: a constructor given resources and a fallback language raises nothing and
\* sets the current language to the first two characters of config.language when
\* these are a key of resources, and to the fallback language in every other case.
C18_InitialLanguage ==
  (/\ last.op = "new"
   /\ Truthy(last.given.resources)
   /\ Truthy(last.given.fallbackLanguage))
    => /\ last.res = BaseHandle
       /\ language = (IF FirstTwo(last.given.language) \in DOMAIN last.given.resources.f
                      THEN FirstTwo(last.given.language)
                      ELSE last.given.fallbackLanguage.s)

\* A language tag longer than two characters gave its first two as the language.
C18_Witness ==
  /\ last.op = "new"
  /\ last.res = BaseHandle
  /\ Len(last.given.language) > 2
  /\ language = FirstTwo(last.given.language)
  /\ language # fallbackLanguage

(* ------------------------------------------------------------------ *)
(* C19                                                                 *)
(* ------------------------------------------------------------------ *)

\* C19: a constructor given no resources raises the error that resources is
\* required, also when the fallback language is missing too; given resources and no
\* fallback language it raises the error that fallbackLanguage is required; the
\* error leaves no translator behind, and no call is ever made on one.
C19_ConstructorErrors ==
  /\ (last.op = "new" /\ ~Truthy(last.given.resources))
       => last.res = Raised(ResourcesRequired)
  /\ (last.op = "new" /\ Truthy(last.given.resources)
      /\ ~Truthy(last.given.fallbackLanguage))
       => last.res = Raised(FallbackLanguageRequired)
  /\ (last.op = "new" /\ last.res.k = "error")
       => (config = Undef /\ language = Undef /\ cache = <<>>)
  /\ (config = Undef) => (last.op = "new" /\ last.res.k = "error")

\* Neither resources nor fallbackLanguage was given: the error names resources.
C19_Witness ==
  /\ last.op = "new"
  /\ ~Truthy(last.given.resources)
  /\ ~Truthy(last.given.fallbackLanguage)
  /\ last.res = Raised(ResourcesRequired)
  /\ config = Undef

(* ------------------------------------------------------------------ *)
(* C20                                                                 *)
(* ------------------------------------------------------------------ *)

\* C20: on a constructed translator, whatever its scope, t, tt, get, getObj, plural
\* and format raise no error for a missing key, a scope that does not resolve or an
\* unknown formatter: format with an unknown formatter returns the value as it is.
C20_NeverRaises ==
  /\ (last.op \in {"t", "tt", "get", "getObj", "plural", "format"}) => last.res # Throw
  /\ (last.op = "format" /\ last.format.formatter \notin formatters)
       => last.res = last.values

(* ------------------------------------------------------------------ *)
(* C21                                                                 *)
(* ------------------------------------------------------------------ *)

\* How often the character ch occurs in s[i..k].
CountIn(s, i, k, ch) == Cardinality({m \in i..k : s[m] = ch})

\* s[i] is an opening brace and s[j] the closing brace that matches it.
BracePair(s, i, j) ==
  /\ i < j
  /\ s[i] = "{"
  /\ s[j] = "}"
  /\ CountIn(s, i, j, "{") = CountIn(s, i, j, "}")
  /\ \A k \in i..(j - 1) : CountIn(s, i, k, "{") > CountIn(s, i, k, "}")

\* A matching pair that lies inside no other matching pair.
TopLevelPair(s, i, j) ==
  /\ BracePair(s, i, j)
  /\ ~\E i2 \in 1..(i - 1), j2 \in (j + 1)..Len(s) : BracePair(s, i2, j2)

\* The top-level brace-balanced substrings of s from position i on, from left to
\* right.
RECURSIVE BalancedFrom(_, _)
BalancedFrom(s, i) ==
  IF i > Len(s) THEN <<>>
  ELSE IF \E j \in (i + 1)..Len(s) : TopLevelPair(s, i, j)
  THEN LET j == CHOOSE j \in (i + 1)..Len(s) : TopLevelPair(s, i, j)
       IN <<SubSeq(s, i, j)>> \o BalancedFrom(s, j + 1)
  ELSE BalancedFrom(s, i + 1)

\* The raw texts of the tokens the scan finds.
ScannedRaws(s) == [k \in DOMAIN Tokens(s) |-> Tokens(s)[k].raw]

\* C21: for every template the scan of interpolate finds exactly the top-level
\* brace-balanced substrings, from left to right, each with its outer braces, also
\* when the template holds closing braces that match nothing or opening braces
\* that are never closed; and interpolate raises nothing.
C21_TokenScan ==
  (last.op = "interpolate") =>
    /\ ScannedRaws(last.key) = BalancedFrom(last.key, 1)
    /\ last.res # Throw

(* ------------------------------------------------------------------ *)
(* C22                                                                 *)
(* ------------------------------------------------------------------ *)

\* s with every occurrence of pat replaced, from left to right.
RECURSIVE ReplaceAll(_, _, _)
ReplaceAll(s, pat, repl) ==
  IF IndexOf(s, pat) = 0 THEN s
  ELSE SubSeq(s, 1, IndexOf(s, pat) - 1) \o GetSubstitution(repl, pat)
       \o ReplaceAll(SubSeq(s, IndexOf(s, pat) + Len(pat), Len(s)), pat, repl)

\* The raw text of the first token occurs again as the raw text of a later token.
FirstTokenRepeated(s) ==
  /\ Len(Tokens(s)) >= 2
  /\ \E k \in 2..Len(Tokens(s)) : Tokens(s)[k].raw = Tokens(s)[1].raw

\* The output after the loop of interpolate has processed the first token only.
AfterFirstToken(s, values) == ReplaceTokens(This, <<Tokens(s)[1]>>, 1, values, s)

\* C22: when the raw text of the first token of a template occurs again as a later
\* token, the output after the first token has been processed has every occurrence
\* of that raw text replaced.
C22_ReplaceEveryOccurrence ==
  (last.op = "interpolate" /\ FirstTokenRepeated(last.key)) =>
    AfterFirstToken(last.key, last.values)
      = ReplaceAll(last.key, Tokens(last.key)[1].raw,
                   Replacement(This, Tokens(last.key)[1], last.values))

(* ------------------------------------------------------------------ *)
(* C23                                                                 *)
(* ------------------------------------------------------------------ *)

\* The arguments given to truncate; none when args is omitted.
GivenArgs(args) == IF args = Undef THEN <<>> ELSE args.a

\* truncate as documented: N and the suffix from the arguments, 10 and "..." for
\* an argument that is not given.
TruncateAsStated(str, a) ==
  LET N == IF Len(a) >= 1 THEN ParseInt(a[1]) ELSE 10
      suffix == IF Len(a) >= 2 THEN a[2] ELSE <<".",".",".">>
  IN StrV(IF Len(str) <= N THEN str ELSE SubSeq(str, 1, N) \o suffix)

\* The value a truncate call of the last step formats: the value passed to format,
\* or the text t has interpolated.
TruncatedValue ==
  IF last.op = "format" THEN last.values
  ELSE Interpolated(Chain(last.key))

\* C23: format(value, "truncate", args) and t with the format option
\* {formatter: "truncate", args} return String(value) when it is at most N long and
\* its first N characters followed by the suffix otherwise, with N = 10 and the
\* suffix "..." for every argument not given, also when no args are given at all.
C23_Truncate ==
  (/\ last.op \in {"format", "t"}
   /\ last.format.k = "fmt"
   /\ last.format.formatter = <<"t","r","u","n","c","a","t","e">>)
    => last.res = TruncateAsStated(StringOf(TruncatedValue), GivenArgs(last.format.args))

(* ------------------------------------------------------------------ *)
(* C24                                                                 *)
(* ------------------------------------------------------------------ *)

Stuck == [k |-> "stuck"]

\* The node reached from tree by descending the first i segments one at a time;
\* Stuck when a node on the way is no object or lacks the segment.
RECURSIVE Down(_, _, _)
Down(keys, i, tree) ==
  IF i = 0 THEN tree
  ELSE LET above == Down(keys, i - 1, tree)
       IN IF above.k = "obj" /\ keys[i] \in DOMAIN above.f THEN above.f[keys[i]]
          ELSE Stuck

\* The path that remains after i segments, joined with dots.
Remaining(keys, i) == Join(SubSeq(keys, i + 1, Len(keys)), <<".">>)

\* The numbers i of descents after which the remaining path is a literal key.
LiteralHits(keys, tree) ==
  {i \in 0..(Len(keys) - 1) :
     /\ Down(keys, i, tree).k = "obj"
     /\ Remaining(keys, i) \in DOMAIN Down(keys, i, tree).f}

\* The walk as stated: the value of the first literal hit, else the node after all
\* the segments, else undefined.
WalkAsStated(keys, tree) ==
  IF tree.k # "obj" THEN Undef
  ELSE IF LiteralHits(keys, tree) # {}
  THEN LET i == Min(LiteralHits(keys, tree))
       IN Down(keys, i, tree).f[Remaining(keys, i)]
  ELSE IF Down(keys, Len(keys), tree) = Stuck THEN Undef
  ELSE Down(keys, Len(keys), tree)

\* C24: findTranslation returns the value of the remaining joined path at the
\* first node, counted from the root, where that path is a literal own key, before
\* it descends by the next segment there; with no such node it returns what the
\* descent segment by segment reaches, and undefined when a segment is missing or
\* a node on the way is not an object.
C24_LiteralKeyFirst ==
  (last.op = "findTranslation") =>
    last.res = WalkAsStated(Split(last.key, "."), last.values)

\* The walk met a node that holds the remaining path both as a literal key and as
\* segments, and returned the literal one.
C24_Witness ==
  /\ last.op = "findTranslation"
  /\ last.key = <<"a",".","b">>
  /\ last.values.k = "obj"
  /\ <<"a",".","b">> \in DOMAIN last.values.f
  /\ Down(<<<<"a">>, <<"b">>>>, 2, last.values) = StrV(<<"d","e","e","p">>)
  /\ last.res = StrV(<<"l","i","t","e","r","a","l">>)

(* ------------------------------------------------------------------ *)
(* C25                                                                 *)
(* ------------------------------------------------------------------ *)

\* The template is one token whose inner text holds "select" and whose second
\* comma-separated part is not "select".
IsMisformedSelect(s) ==
  /\ Len(Tokens(s)) = 1
  /\ Tokens(s)[1].raw = s
  /\ Includes(Tokens(s)[1].inner, <<"s","e","l","e","c","t">>)
  /\ LET parts == MapTrim(Split(Tokens(s)[1].inner, ","))
     IN Len(parts) < 2 \/ parts[2] # <<"s","e","l","e","c","t">>

\* C25: a template that is one token whose inner text holds "select" without
\* "select" as its second comma-separated part comes out of interpolate as it went
\* in: the raw text of the token stays.
C25_SelectLikeStays ==
  (last.op = "interpolate" /\ IsMisformedSelect(last.key)) => last.res = StrV(last.key)

(* ------------------------------------------------------------------ *)
(* C29                                                                 *)
(* ------------------------------------------------------------------ *)

\* C29: when t is called with a count and a key without plural suffix and
\* key_<category> resolves, t returns the interpolated value of key_<category> as
\* it is, whatever the base key resolves to and whatever format option is given;
\* plural with the same arguments, for a base key that is no object, returns that
\* value with the formatter of the format option applied.
C29_ImplicitPluralUnformatted ==
  /\ (ImplicitPlural /\ Chain(LastPluralKey) # Undef)
       => last.res = Interpolated(Chain(LastPluralKey))
  /\ (/\ last.op = "plural"
      /\ last.key # <<>>
      /\ LastCount # Undef
      /\ Chain(last.key).k # "obj"
      /\ Chain(LastPluralKey) # Undef)
       => last.res = Formatted(Interpolated(Chain(LastPluralKey)), last.format)

\* t took the implicit-plural path with the upper formatter given and a base key
\* that resolves too: the suffixed value came back unformatted.
C29_Witness ==
  /\ ImplicitPlural
  /\ last.format = Format(<<"u","p","p","e","r">>, Undef)
  /\ Chain(LastPluralKey) # Undef
  /\ Chain(last.key) # Undef
  /\ last.res = Interpolated(Chain(LastPluralKey))
  /\ last.res # Formatted(last.res, last.format)
  /\ last.res # Formatted(OrKey(Interpolated(Chain(last.key)), last.key), last.format)

\* plural applied the upper formatter to the same suffixed value.
C29_PluralWitness ==
  /\ last.op = "plural"
  /\ last.format = Format(<<"u","p","p","e","r">>, Undef)
  /\ Chain(last.key).k # "obj"
  /\ Chain(LastPluralKey) # Undef
  /\ last.res = Formatted(Interpolated(Chain(LastPluralKey)), last.format)
  /\ last.res # Interpolated(Chain(LastPluralKey))

(* ------------------------------------------------------------------ *)
(* C26                                                                 *)
(* ------------------------------------------------------------------ *)

\* The last step was a successful changeLanguage made through a view.
ViewChangedLanguage ==
  /\ last.op = "changeLanguage"
  /\ last.on.k = "view"
  /\ last.key \in DOMAIN resources.f

\* C26: a successful changeLanguage(lang) made through a view leaves the
\* translator the view was made from with lang as its language and the plural
\* rules of lang, which every view without a language override then reports; and
\* in every state a view with a language override reports its override.
C26_ViewChangesBase ==
  /\ ViewChangedLanguage =>
       /\ language = last.key
       /\ pluralRules = last.key
       /\ \A id \in DOMAIN views :
            (views[id].language = Undef) => LanguageOf(ViewHandle(id)) = last.key
  /\ \A id \in DOMAIN views :
       (views[id].language # Undef) => LanguageOf(ViewHandle(id)) = views[id].language.s

(* ------------------------------------------------------------------ *)
(* C27                                                                 *)
(* ------------------------------------------------------------------ *)

\* The view of the last call as stated: keys looked up in the language of the
\* view, the category selected with the rules of the base translator's language.
ViewAsStated == Self(LanguageOf(last.on), ScopeOf(last.on), language, useCache)

\* C27: on a view whose language override is not the base translator's current
\* language, plural, and t with a count and a key without plural suffix, return
\* what the lookup in the view's language with the plural rules of the base
\* translator's current language returns.
C27_ViewUsesBaseRules ==
  (/\ last.op \in {"plural", "t"}
   /\ last.on.k = "view"
   /\ views[last.on.id].language # Undef
   /\ views[last.on.id].language.s # language
   /\ BagGet(last.values, <<"c","o","u","n","t">>) # Undef
   /\ ~HasPluralSuffix(last.key))
    => last.res = (IF last.op = "plural"
                   THEN plural(ViewAsStated, last.key, last.values, last.format,
                               CacheOf(last.on)).v
                   ELSE t(ViewAsStated, last.key, last.values, last.format,
                          CacheOf(last.on)).v)

(* ------------------------------------------------------------------ *)
(* C30                                                                 *)
(* ------------------------------------------------------------------ *)

\* C30: after every step the language of the constructed translator is a key of
\* resources or the fallback language, and its plural rules are those of its
\* language; a changeLanguage call with an argument that is no key of resources
\* leaves the language, the plural rules and the cache as they were and raises
\* nothing.
C30_LanguageAndRules ==
  [][/\ language' \in DOMAIN resources.f \cup {fallbackLanguage}
     /\ pluralRules' = language'
     /\ (/\ last = Idle
         /\ last'.op = "changeLanguage"
         /\ last'.key \notin DOMAIN resources.f)
          => (UNCHANGED <<language, pluralRules, cache>> /\ last'.res # Throw)]_vars

(* ------------------------------------------------------------------ *)
(* C28                                                                 *)
(* ------------------------------------------------------------------ *)

\* get(key) by a translator of the given language with no scope at all.
UnscopedGet(lang, key) == get(Self(lang, NoScope, lang, FALSE), key, <<>>).v

\* get(key) by a translator of the given language with the scope of the
\* constructed translator.
InheritedGet(lang, key) == get(Self(lang, scope, lang, FALSE), key, <<>>).v

\* C28: a view made by withConfig without a scope has no scope, and get through it
\* resolves the key from the root of the resources although the translator it was
\* made from is scoped; a clone made without a scope is unscoped likewise; a view
\* made without a language reports the current language of the translator it was
\* made from, and a clone made without a language starts in that language.
C28_OmittedScopeNotInherited ==
  /\ (last.op = "withConfig" /\ last.res.k = "view") =>
       /\ (last.given.scope = NoScope) => ScopeOf(last.res) = NoScope
       /\ (last.given.language = Undef) => LanguageOf(last.res) = language
  /\ (/\ last.op = "get"
      /\ last.on.k = "view"
      /\ views[last.on.id].scope = NoScope) =>
       last.res = UnscopedGet(last.language, last.key)
  /\ \A id \in DOMAIN views :
       (views[id].language = Undef) => LanguageOf(ViewHandle(id)) = language
  /\ (last.op = "clone") =>
       /\ (last.given.scope = NoScope) => clone.scope = NoScope
       /\ (last.given.language = Undef) =>
            (clone.language = language /\ clone.pluralRules = language)
  /\ (/\ last.op = "get"
      /\ last.on = CloneHandle
      /\ clone.scope = NoScope) =>
       last.res = UnscopedGet(last.language, last.key)

\* A view made without a scope from a scoped translator has answered get with the
\* value at the root, which is not the value under the scope.
C28_Witness ==
  /\ last.op = "get"
  /\ last.on.k = "view"
  /\ scope # NoScope
  /\ views[last.on.id] = Overrides(Undef, NoScope)
  /\ last.language = language
  /\ last.res = UnscopedGet(language, last.key)
  /\ last.res # InheritedGet(language, last.key)

\* A clone made with neither language nor scope, after the original's language was
\* changed, has answered get from the root in the original's language.
C28_CloneWitness ==
  /\ last.op = "get"
  /\ last.on = CloneHandle
  /\ scope # NoScope
  /\ clone.scope = NoScope
  /\ clone.language = De
  /\ language = De
  /\ last.res = UnscopedGet(De, last.key)
  /\ last.res # InheritedGet(De, last.key)


====
